---- MODULE Spec2Model ----
(***************************************************************************)
(* Model of the SEARCH/REPLACE patch engine of bioagent/OTcoder/           *)
(* diff_utils.py.  Texts are sequences of one-character strings, offsets   *)
(* are 0-based and spans are half-open, as in the Python source.           *)
(***************************************************************************)
EXTENDS Integers, Sequences, FiniteSets, TLC

(***************************************************************************)
(* Bounds of the model.                                                    *)
(***************************************************************************)
MaxTextLines == 4

MaxSearchLines == 3

MaxReplaceLines == 1

MaxBlocks == 2

MaxSize == 10

MaxLongLines == 5

(***************************************************************************)
(* Characters and lines the inputs are drawn from.                         *)
(***************************************************************************)
NL == "\n"

SP == " "

ContentLines == { <<"a">>, <<"b">>, <<SP, "a">> }

(***************************************************************************)
(* Python string primitives, restricted to the characters above.           *)
(***************************************************************************)
Min(a, b) == IF a < b THEN a ELSE b

Max(a, b) == IF a > b THEN a ELSE b

\* s[i:j] for 0 <= i, with Python's clamping of the upper index.
Slice(s, i, j) ==
    LET hi == Min(j, Len(s))
    IN  IF i >= hi THEN << >> ELSE SubSeq(s, i + 1, hi)

\* c * n
Rep(c, n) == [k \in 1..n |-> c]

RECURSIVE Join(_, _)
\* sep.join(lines)
Join(lines, sep) ==
    IF lines = << >> THEN << >>
    ELSE IF Len(lines) = 1 THEN lines[1]
    ELSE lines[1] \o sep \o Join(Tail(lines), sep)

RECURSIVE Flatten(_)
\* "".join(parts)
Flatten(parts) ==
    IF parts = << >> THEN << >> ELSE parts[1] \o Flatten(Tail(parts))

\* sum(len(line) for line in lines)
SumLen(lines) == Len(Flatten(lines))

\* Offset of the first "\n" of s at or after offset i, or Len(s) if none.
NextNL(s, i) ==
    IF \E k \in (i + 1)..Len(s) : s[k] = NL
    THEN (CHOOSE k \in (i + 1)..Len(s) :
              s[k] = NL /\ \A m \in (i + 1)..(k - 1) : s[m] # NL) - 1
    ELSE Len(s)

RECURSIVE SplitFrom(_, _, _)
SplitFrom(s, i, keepends) ==
    IF i >= Len(s) THEN << >>
    ELSE LET e == NextNL(s, i)
             stop == IF keepends THEN Min(e + 1, Len(s)) ELSE e
         IN  << Slice(s, i, stop) >> \o SplitFrom(s, e + 1, keepends)

\* str.splitlines(keepends): no empty last line after a final "\n".
SplitLines(s, keepends) == SplitFrom(s, 0, keepends)

\* str.rfind(sub): highest offset of an occurrence, -1 if none.
FindLast(s, sub) ==
    LET occ == { i \in 0..(Len(s) - Len(sub)) : Slice(s, i, i + Len(sub)) = sub }
    IN  IF occ = {} THEN -1 ELSE CHOOSE i \in occ : \A k \in occ : i >= k

\* A search that does not find the empty string.
FindNonEmpty(s, sub) ==
    LET occ == { i \in 0..(Len(s) - Len(sub)) : Slice(s, i, i + Len(sub)) = sub }
    IN  IF occ = {} \/ sub = << >> THEN -1 ELSE CHOOSE i \in occ : \A k \in occ : i <= k

\* str.find(sub): lowest offset of an occurrence, -1 if none.
Find(s, sub) ==
    LET occ == { i \in 0..(Len(s) - Len(sub)) : Slice(s, i, i + Len(sub)) = sub }
    IN  IF occ = {} THEN -1 ELSE CHOOSE i \in occ : \A k \in occ : i <= k

\* str.count("\n", 0, end)
CountNL(s, end) == Cardinality({ k \in 1..Min(end, Len(s)) : s[k] = NL })

IsSpace(c) == c \in {SP, NL}

\* str.strip()
Strip(s) ==
    LET ns == { k \in 1..Len(s) : ~IsSpace(s[k]) }
    IN  IF ns = {} THEN << >>
        ELSE SubSeq(s, CHOOSE k \in ns : \A m \in ns : k <= m,
                       CHOOSE k \in ns : \A m \in ns : k >= m)

(***************************************************************************)
(* Marker patterns (re.match of an anchored pattern on one line).          *)
(***************************************************************************)
MinMarkerRun == 7

SEARCH_WORD == <<SP, "S", "E", "A", "R", "C", "H">>

REPLACE_WORD == <<SP, "R", "E", "P", "L", "A", "C", "E">>

\* The start pattern with a run of 6 accepted.
is_search_block_start_short(line) ==
    \E n \in (MinMarkerRun - 1)..Len(line) : line = Rep("-", n) \o SEARCH_WORD

is_search_block_start(line) ==
    \E n \in MinMarkerRun..Len(line) : line = Rep("-", n) \o SEARCH_WORD

is_search_block_end(line) ==
    Len(line) >= MinMarkerRun /\ line = Rep("=", Len(line))

is_replace_block_end(line) ==
    \E n \in MinMarkerRun..Len(line) : line = Rep("+", n) \o REPLACE_WORD

(***************************************************************************)
(* difflib.SequenceMatcher(None, a, b, autojunk=False)                     *)
(*     .find_longest_match(0, len(a), 0, len(b))                           *)
(* The longest block a[i:i+k] = b[j:j+k]; of the longest ones the one that *)
(* starts earliest in a, and of those the one that starts earliest in b;   *)
(* (0, 0, 0) when no element is shared.                                    *)
(***************************************************************************)
RECURSIVE RunLen(_, _, _, _)
RunLen(a, b, i, j) ==
    IF i < Len(a) /\ j < Len(b) /\ a[i + 1] = b[j + 1]
    THEN 1 + RunLen(a, b, i + 1, j + 1)
    ELSE 0

\* Of the longest blocks the one that starts latest in a.
find_longest_match_latest(a, b) ==
    LET pairs == (0..(Len(a) - 1)) \X (0..(Len(b) - 1))
        hits  == { p \in pairs : RunLen(a, b, p[1], p[2]) > 0 }
        Better(p, q) ==
            LET kp == RunLen(a, b, p[1], p[2])
                kq == RunLen(a, b, q[1], q[2])
            IN  \/ kp > kq
                \/ kp = kq /\ p[1] > q[1]
                \/ kp = kq /\ p[1] = q[1] /\ p[2] <= q[2]
    IN  IF hits = {} THEN [a |-> 0, b |-> 0, size |-> 0]
        ELSE LET best == CHOOSE p \in hits : \A q \in hits : Better(p, q)
             IN  [a |-> best[1], b |-> best[2],
                  size |-> RunLen(a, b, best[1], best[2])]

find_longest_match(a, b) ==
    LET pairs == (0..(Len(a) - 1)) \X (0..(Len(b) - 1))
        hits  == { p \in pairs : RunLen(a, b, p[1], p[2]) > 0 }
        Better(p, q) ==
            LET kp == RunLen(a, b, p[1], p[2])
                kq == RunLen(a, b, q[1], q[2])
            IN  \/ kp > kq
                \/ kp = kq /\ p[1] < q[1]
                \/ kp = kq /\ p[1] = q[1] /\ p[2] <= q[2]
    IN  IF hits = {} THEN [a |-> 0, b |-> 0, size |-> 0]
        ELSE LET best == CHOOSE p \in hits : \A q \in hits : Better(p, q)
             IN  [a |-> best[1], b |-> best[2],
                  size |-> RunLen(a, b, best[1], best[2])]

(***************************************************************************)
(* The three line-based matchers.  A result is a record [start, end] or    *)
(* None.                                                                   *)
(***************************************************************************)
None == [none |-> TRUE]

Span(s, e) == [start |-> s, end |-> e]

FuzzyNum == 6

FuzzyDen == 10

\* fuzzy_match going on to another longest run when the window of the run
\* that find_longest_match returns is out of bounds.
fuzzy_match_any_run(original_content_, search_content) ==
    LET original_lines == SplitLines(original_content_, TRUE)
        search_lines   == SplitLines(search_content, TRUE)
    IN  IF search_lines = << >> THEN None
        ELSE
        LET match == find_longest_match(original_lines, search_lines)
            starts == { p \in (0..(Len(original_lines) - 1)) \X (0..(Len(search_lines) - 1)) :
                          /\ RunLen(original_lines, search_lines, p[1], p[2]) = match.size
                          /\ p[1] - p[2] >= 0
                          /\ p[1] - p[2] + Len(search_lines) <= Len(original_lines) }
        IN  IF match.size > 0 /\ FuzzyDen * match.size >= FuzzyNum * Len(search_lines)
                 /\ starts # {}
            THEN LET p == CHOOSE q \in starts :
                              \A r \in starts :
                                  q[1] < r[1] \/ (q[1] = r[1] /\ q[2] <= r[2])
                     start_line_in_original == p[1] - p[2]
                     match_start_char_index ==
                         SumLen(Slice(original_lines, 0, start_line_in_original))
                     content_to_replace ==
                         Slice(original_lines, start_line_in_original,
                               start_line_in_original + Len(search_lines))
                 IN  Span(match_start_char_index,
                          match_start_char_index + SumLen(content_to_replace))
            ELSE None

fuzzy_match(original_content_, search_content) ==
    LET original_lines == SplitLines(original_content_, TRUE)
        search_lines   == SplitLines(search_content, TRUE)
    IN  IF search_lines = << >> THEN None
        ELSE
        LET match == find_longest_match(original_lines, search_lines)
            start_line_in_original == match.a - match.b
            end_line_in_original == start_line_in_original + Len(search_lines)
        IN  \* match.size / len(search_lines) >= 0.6
            IF match.size > 0 /\ FuzzyDen * match.size >= FuzzyNum * Len(search_lines)
            THEN IF \/ start_line_in_original < 0
                    \/ end_line_in_original > Len(original_lines)
                 THEN None
                 ELSE LET match_start_char_index ==
                              SumLen(Slice(original_lines, 0, start_line_in_original))
                          content_to_replace ==
                              Slice(original_lines, start_line_in_original,
                                    end_line_in_original)
                      IN  Span(match_start_char_index,
                               match_start_char_index + SumLen(content_to_replace))
            ELSE None

\* The sum with 2 counted for the ending of each line.
SumLenPlus2(lines, lo, hi) == SumLen(Slice(lines, lo, hi)) + 2 * Max(hi - lo, 0)

\* sum of len(original_lines[k]) + 1 for k in range(lo, hi)
SumLenPlus1(lines, lo, hi) == SumLen(Slice(lines, lo, hi)) + Max(hi - lo, 0)

\* The line-trimmed matcher without "match_end_char_index -= 1": the span
\* takes the separator after the last line of the run.
line_trimmed_keep_separator(original_content_, search_content, start_index) ==
    LET original_lines == SplitLines(original_content_, FALSE)
        search_lines   == SplitLines(search_content, FALSE)
        start_line_num == CountNL(original_content_, start_index)
        n == Len(search_lines)
        Matches(i) ==
            \A j \in 0..(n - 1) :
                Strip(original_lines[i + j + 1]) = Strip(search_lines[j + 1])
        cands == { i \in start_line_num..(Len(original_lines) - n) : Matches(i) }
    IN  IF search_lines = << >> THEN None
        ELSE IF cands = {} THEN None
        ELSE LET i == CHOOSE c \in cands : \A d \in cands : c <= d
                 match_start_char_index == SumLenPlus1(original_lines, 0, i)
             IN  Span(match_start_char_index,
                      match_start_char_index
                          + SumLenPlus1(original_lines, i, i + n))

line_trimmed_fallback_match(original_content_, search_content, start_index) ==
    LET original_lines == SplitLines(original_content_, FALSE)
        search_lines   == SplitLines(search_content, FALSE)
        start_line_num == CountNL(original_content_, start_index)
        n == Len(search_lines)
        Matches(i) ==
            \A j \in 0..(n - 1) :
                Strip(original_lines[i + j + 1]) = Strip(search_lines[j + 1])
        cands == { i \in start_line_num..(Len(original_lines) - n) : Matches(i) }
    IN  IF search_lines = << >> THEN None
        ELSE IF cands = {} THEN None
        ELSE LET i == CHOOSE c \in cands : \A d \in cands : c <= d
                 match_start_char_index == SumLenPlus1(original_lines, 0, i)
             IN  Span(match_start_char_index,
                      match_start_char_index
                          + SumLenPlus1(original_lines, i, i + n) - 1)

AnchorMinLines == 3

\* The anchor matcher with its minimum off by one: blocks of 2 lines pass.
block_anchor_two_lines(original_content_, search_content, start_index) ==
    LET original_lines == SplitLines(original_content_, FALSE)
        search_lines   == SplitLines(search_content, FALSE)
        search_block_size == Len(search_lines)
        start_line_num == CountNL(original_content_, start_index)
        cands == { i \in start_line_num..(Len(original_lines) - search_block_size) :
                     /\ Strip(original_lines[i + 1]) = Strip(search_lines[1])
                     /\ Strip(original_lines[i + search_block_size])
                            = Strip(search_lines[search_block_size]) }
    IN  IF search_block_size < AnchorMinLines - 1 THEN None
        ELSE IF cands = {} THEN None
        ELSE LET i == CHOOSE c \in cands : \A d \in cands : c <= d
                 match_start_char_index == SumLenPlus1(original_lines, 0, i)
             IN  Span(match_start_char_index,
                      match_start_char_index
                          + SumLenPlus1(original_lines, i, i + search_block_size) - 1)

\* The anchor matcher scanning backward: the last run whose anchors match.
block_anchor_last_run(original_content_, search_content, start_index) ==
    LET original_lines == SplitLines(original_content_, FALSE)
        search_lines   == SplitLines(search_content, FALSE)
        search_block_size == Len(search_lines)
        start_line_num == CountNL(original_content_, start_index)
        cands == { i \in start_line_num..(Len(original_lines) - search_block_size) :
                     /\ Strip(original_lines[i + 1]) = Strip(search_lines[1])
                     /\ Strip(original_lines[i + search_block_size])
                            = Strip(search_lines[search_block_size]) }
    IN  IF search_block_size < AnchorMinLines THEN None
        ELSE IF cands = {} THEN None
        ELSE LET i == CHOOSE c \in cands : \A d \in cands : c >= d
                 match_start_char_index == SumLenPlus1(original_lines, 0, i)
             IN  Span(match_start_char_index,
                      match_start_char_index
                          + SumLenPlus1(original_lines, i, i + search_block_size) - 1)

block_anchor_fallback_match(original_content_, search_content, start_index) ==
    LET original_lines == SplitLines(original_content_, FALSE)
        search_lines   == SplitLines(search_content, FALSE)
        search_block_size == Len(search_lines)
        start_line_num == CountNL(original_content_, start_index)
        cands == { i \in start_line_num..(Len(original_lines) - search_block_size) :
                     /\ Strip(original_lines[i + 1]) = Strip(search_lines[1])
                     /\ Strip(original_lines[i + search_block_size])
                            = Strip(search_lines[search_block_size]) }
    IN  IF search_block_size < AnchorMinLines THEN None
        ELSE IF cands = {} THEN None
        ELSE LET i == CHOOSE c \in cands : \A d \in cands : c <= d
                 match_start_char_index == SumLenPlus1(original_lines, 0, i)
             IN  Span(match_start_char_index,
                      match_start_char_index
                          + SumLenPlus1(original_lines, i, i + search_block_size) - 1)

(***************************************************************************)
(* apply_diff: the locals of one call, the body of its loop over the diff  *)
(* lines, and the code after the loop.                                     *)
(***************************************************************************)
ERR_START == "Unexpected SEARCH_BLOCK_START found."

ERR_SEP == "Unexpected SEARCH_BLOCK_END without a start."

ERR_END == "Unexpected REPLACE_BLOCK_END without a start."

ERR_NOMATCH == "The SEARCH block does not match anything in the file"

ERR_OPEN == "Diff content ended while inside a SEARCH/REPLACE block. Missing closing marker."

ERR_OVERLAP == "Overlapping SEARCH blocks are not supported."

\* The call is still running.
Running == [status |-> "running"]

\* raise ValueError(message); detail is the search content put in the message.
Raise(message, detail) == [status |-> "raised", error |-> message, detail |-> detail]

\* return text
Return(text) == [status |-> "returned", text |-> text]

\* The strategies with the line-trimmed matcher consulted before the fuzzy one.
MatchBlockTrimmedFirst(original_content_, search_content) ==
    LET exact_index == Find(original_content_, search_content)
        line_match == line_trimmed_fallback_match(original_content_, search_content, 0)
        fuzzy_match_result == fuzzy_match(original_content_, search_content)
        block_match == block_anchor_fallback_match(original_content_, search_content, 0)
    IN  IF exact_index # -1
        THEN [by |-> "exact", start |-> exact_index,
              end |-> exact_index + Len(search_content)]
        ELSE IF line_match # None
        THEN [by |-> "line_trimmed", start |-> line_match.start, end |-> line_match.end]
        ELSE IF fuzzy_match_result # None
        THEN [by |-> "fuzzy", start |-> fuzzy_match_result.start,
              end |-> fuzzy_match_result.end]
        ELSE IF block_match # None
        THEN [by |-> "block_anchor", start |-> block_match.start,
              end |-> block_match.end]
        ELSE [by |-> "none"]

\* The four strategies in the order of the nested if/else of apply_diff.
\* by names the strategy that set search_match_index and search_end_index.
MatchBlock(original_content_, search_content) ==
    LET exact_index == Find(original_content_, search_content)
    IN  IF exact_index # -1
        THEN [by |-> "exact", start |-> exact_index,
              end |-> exact_index + Len(search_content)]
        ELSE
        LET fuzzy_match_result == fuzzy_match(original_content_, search_content)
        IN  IF fuzzy_match_result # None
            THEN [by |-> "fuzzy", start |-> fuzzy_match_result.start,
                  end |-> fuzzy_match_result.end]
            ELSE
            LET line_match ==
                    line_trimmed_fallback_match(original_content_, search_content, 0)
            IN  IF line_match # None
                THEN [by |-> "line_trimmed", start |-> line_match.start,
                      end |-> line_match.end]
                ELSE
                LET block_match ==
                        block_anchor_fallback_match(original_content_, search_content, 0)
                IN  IF block_match # None
                    THEN [by |-> "block_anchor", start |-> block_match.start,
                          end |-> block_match.end]
                    ELSE [by |-> "none"]

RECURSIVE InsertByStart(_, _)
\* r put after every element of the sorted list whose start is <= r.start.
InsertByStart(sorted, r) ==
    IF sorted = << >> THEN << r >>
    ELSE IF sorted[1].start <= r.start
         THEN << sorted[1] >> \o InsertByStart(Tail(sorted), r)
         ELSE << r >> \o sorted

\* The list left in document order, not sorted.
SortByStartSkipped(rs) == rs

RECURSIVE SortByStart(_)
\* replacements.sort(key=lambda r: r['start']): stable, ascending.
SortByStart(rs) ==
    IF rs = << >> THEN << >>
    ELSE InsertByStart(SortByStart(SubSeq(rs, 1, Len(rs) - 1)), rs[Len(rs)])

RECURSIVE HasOverlapStale(_, _)
\* The overlap loop without "last_end = r['end']" taking effect.
HasOverlapStale(rs, last_end) ==
    IF rs = << >> THEN FALSE
    ELSE IF rs[1].start < last_end THEN TRUE
    ELSE HasOverlapStale(Tail(rs), last_end)

RECURSIVE HasOverlap(_, _)
\* The overlap loop: r['start'] < last_end for some r, last_end the end of
\* the replacement before it (-1 before the first).
HasOverlap(rs, last_end) ==
    IF rs = << >> THEN FALSE
    ELSE IF rs[1].start < last_end THEN TRUE
    ELSE HasOverlap(Tail(rs), rs[1].end)

RECURSIVE RebuildKeep(_, _, _)
\* The rebuild loop without "current_pos = replacement['end']" taking effect:
\* the replaced span is kept after the replacement text.
RebuildKeep(original_content_, rs, current_pos) ==
    IF rs = << >> THEN Slice(original_content_, current_pos, Len(original_content_))
    ELSE Slice(original_content_, current_pos, rs[1].start)
         \o rs[1].content
         \o RebuildKeep(original_content_, Tail(rs), rs[1].start)

RECURSIVE Rebuild(_, _, _)
\* The rebuild loop and the final append, joined.
Rebuild(original_content_, rs, current_pos) ==
    IF rs = << >> THEN Slice(original_content_, current_pos, Len(original_content_))
    ELSE Slice(original_content_, current_pos, rs[1].start)
         \o rs[1].content
         \o Rebuild(original_content_, Tail(rs), rs[1].end)

\* The matchers are given the text with the blocks resolved so far applied.
MatchTargetPatched(loc, original_content_) ==
    Rebuild(original_content_, SortByStart(loc.replacements), 0)

\* The text the matchers of apply_diff are given: its argument
\* original_content, whatever the blocks resolved before.
MatchTarget(loc, original_content_) == original_content_

\* The block is dropped and the loop goes on, nothing raised.
OnUnmatchedSkip(loc, search_content) ==
    [loc EXCEPT !.in_replace = FALSE,
                !.in_search = FALSE,
                !.current_search_content_lines = << >>,
                !.current_replace_content_lines = << >>]

\* The message names the replace lines instead of the search content.
OnUnmatchedNameReplace(loc, search_content) ==
    [loc EXCEPT !.outcome =
        Raise(ERR_NOMATCH, Join(loc.current_replace_content_lines, <<NL>>))]

\* The innermost else: no strategy located the block.
OnUnmatched(loc, search_content) ==
    [loc EXCEPT !.outcome = Raise(ERR_NOMATCH, search_content)]

\* The locals of apply_diff as the call starts.
InitLocals ==
    [in_search |-> FALSE, in_replace |-> FALSE,
     current_search_content_lines |-> << >>,
     current_replace_content_lines |-> << >>,
     replacements |-> << >>,
     outcome |-> Running]

\* The loop body raising on a line that is outside every section.
LoopBodyRejectStray(loc, original_content_, line_) ==
    IF is_search_block_start(line_)
    THEN IF loc.in_search \/ loc.in_replace
         THEN [loc EXCEPT !.outcome = Raise(ERR_START, << >>)]
         ELSE [loc EXCEPT !.in_search = TRUE,
                          !.current_search_content_lines = << >>,
                          !.current_replace_content_lines = << >>]
    ELSE IF is_search_block_end(line_)
    THEN IF ~loc.in_search
         THEN [loc EXCEPT !.outcome = Raise(ERR_SEP, << >>)]
         ELSE [loc EXCEPT !.in_search = FALSE, !.in_replace = TRUE]
    ELSE IF is_replace_block_end(line_)
    THEN IF ~loc.in_replace
         THEN [loc EXCEPT !.outcome = Raise(ERR_END, << >>)]
         ELSE LET search_content == Join(loc.current_search_content_lines, <<NL>>)
                  m == MatchBlock(MatchTarget(loc, original_content_), search_content)
              IN  IF m.by = "none"
                  THEN OnUnmatched(loc, search_content)
                  ELSE [loc EXCEPT
                          !.replacements = Append(@,
                              [start |-> m.start, end |-> m.end,
                               content |-> Join(loc.current_replace_content_lines,
                                                <<NL>>)]),
                          !.in_replace = FALSE,
                          !.in_search = FALSE,
                          !.current_search_content_lines = << >>,
                          !.current_replace_content_lines = << >>]
    ELSE IF loc.in_search
    THEN [loc EXCEPT !.current_search_content_lines = Append(@, line_)]
    ELSE IF loc.in_replace
    THEN [loc EXCEPT !.current_replace_content_lines = Append(@, line_)]
    ELSE [loc EXCEPT !.outcome = Raise(ERR_START, << >>)]

\* The loop body appending line.strip() to the open section.
LoopBodyStripped(loc, original_content_, line_) ==
    IF is_search_block_start(line_)
    THEN IF loc.in_search \/ loc.in_replace
         THEN [loc EXCEPT !.outcome = Raise(ERR_START, << >>)]
         ELSE [loc EXCEPT !.in_search = TRUE,
                          !.current_search_content_lines = << >>,
                          !.current_replace_content_lines = << >>]
    ELSE IF is_search_block_end(line_)
    THEN IF ~loc.in_search
         THEN [loc EXCEPT !.outcome = Raise(ERR_SEP, << >>)]
         ELSE [loc EXCEPT !.in_search = FALSE, !.in_replace = TRUE]
    ELSE IF is_replace_block_end(line_)
    THEN IF ~loc.in_replace
         THEN [loc EXCEPT !.outcome = Raise(ERR_END, << >>)]
         ELSE LET search_content == Join(loc.current_search_content_lines, <<NL>>)
                  m == MatchBlock(MatchTarget(loc, original_content_), search_content)
              IN  IF m.by = "none"
                  THEN OnUnmatched(loc, search_content)
                  ELSE [loc EXCEPT
                          !.replacements = Append(@,
                              [start |-> m.start, end |-> m.end,
                               content |-> Join(loc.current_replace_content_lines,
                                                <<NL>>)]),
                          !.in_replace = FALSE,
                          !.in_search = FALSE,
                          !.current_search_content_lines = << >>,
                          !.current_replace_content_lines = << >>]
    ELSE IF loc.in_search
    THEN [loc EXCEPT !.current_search_content_lines = Append(@, Strip(line_))]
    ELSE IF loc.in_replace
    THEN [loc EXCEPT !.current_replace_content_lines = Append(@, Strip(line_))]
    ELSE loc

\* One iteration of "for line in lines".
LoopBody(loc, original_content_, line_) ==
    IF is_search_block_start(line_)
    THEN IF loc.in_search \/ loc.in_replace
         THEN [loc EXCEPT !.outcome = Raise(ERR_START, << >>)]
         ELSE [loc EXCEPT !.in_search = TRUE,
                          !.current_search_content_lines = << >>,
                          !.current_replace_content_lines = << >>]
    ELSE IF is_search_block_end(line_)
    THEN IF ~loc.in_search
         THEN [loc EXCEPT !.outcome = Raise(ERR_SEP, << >>)]
         ELSE [loc EXCEPT !.in_search = FALSE, !.in_replace = TRUE]
    ELSE IF is_replace_block_end(line_)
    THEN IF ~loc.in_replace
         THEN [loc EXCEPT !.outcome = Raise(ERR_END, << >>)]
         ELSE LET search_content == Join(loc.current_search_content_lines, <<NL>>)
                  m == MatchBlock(MatchTarget(loc, original_content_), search_content)
              IN  IF m.by = "none"
                  THEN OnUnmatched(loc, search_content)
                  ELSE [loc EXCEPT
                          !.replacements = Append(@,
                              [start |-> m.start, end |-> m.end,
                               content |-> Join(loc.current_replace_content_lines,
                                                <<NL>>)]),
                          !.in_replace = FALSE,
                          !.in_search = FALSE,
                          !.current_search_content_lines = << >>,
                          !.current_replace_content_lines = << >>]
    ELSE IF loc.in_search
    THEN [loc EXCEPT !.current_search_content_lines = Append(@, line_)]
    ELSE IF loc.in_replace
    THEN [loc EXCEPT !.current_replace_content_lines = Append(@, line_)]
    ELSE loc

\* The code after the loop without its check for a section left open.
AfterLoopNoOpenCheck(loc, original_content_) ==
    LET sorted == SortByStart(loc.replacements)
    IN  IF HasOverlap(sorted, -1)
        THEN [loc EXCEPT !.replacements = sorted,
                         !.outcome = Raise(ERR_OVERLAP, << >>)]
        ELSE [loc EXCEPT !.replacements = sorted,
                         !.outcome = Return(Rebuild(original_content_, sorted, 0))]

\* The code after the loop.
AfterLoop(loc, original_content_) ==
    IF loc.in_search \/ loc.in_replace
    THEN [loc EXCEPT !.outcome = Raise(ERR_OPEN, << >>)]
    ELSE LET sorted == SortByStart(loc.replacements)
         IN  IF HasOverlap(sorted, -1)
             THEN [loc EXCEPT !.replacements = sorted,
                              !.outcome = Raise(ERR_OVERLAP, << >>)]
             ELSE [loc EXCEPT !.replacements = sorted,
                              !.outcome = Return(Rebuild(original_content_, sorted, 0))]

RECURSIVE RunLoop(_, _, _)
RunLoop(loc, original_content_, lines) ==
    IF lines = << >> \/ loc.outcome # Running THEN loc
    ELSE RunLoop(LoopBody(loc, original_content_, lines[1]), original_content_,
                 Tail(lines))

\* What apply_diff gives once the loop has left loc: the error raised in the
\* loop, or the outcome of the code after the loop.
AfterRunLoop(loc, original_content_) ==
    IF loc.outcome # Running THEN loc.outcome
    ELSE AfterLoop(loc, original_content_).outcome

\* apply_diff(original_content, diff_content) as a function of its arguments.
apply_diff(original_content_, diff_content) ==
    AfterRunLoop(RunLoop(InitLocals, original_content_,
                         SplitLines(diff_content, FALSE)),
                 original_content_)

(***************************************************************************)
(* Inputs: the original text and the lines of the diff text.               *)
(***************************************************************************)
SeqsUpTo(S, n) == UNION { [1..k -> S] : k \in 0..n }

\* Texts of at most MaxTextLines lines, with and without a final newline.
Texts ==
    { Join(ls, <<NL>>) \o tail :
        ls \in SeqsUpTo(ContentLines, Min(MaxTextLines, MaxSize)),
        tail \in { << >>, <<NL>> } }

START_MARKER == Rep("-", MinMarkerRun) \o SEARCH_WORD

SEPARATOR == Rep("=", MinMarkerRun)

END_MARKER == Rep("+", MinMarkerRun) \o REPLACE_WORD

MarkerLines == { START_MARKER, SEPARATOR, END_MARKER }

DiffLines == MarkerLines \cup ContentLines

(***************************************************************************)
(* One call of apply_diff as a state machine: the diff lines are read one  *)
(* per step, then the code after the loop runs.                            *)
(***************************************************************************)
VARIABLES
    original_content,               \* argument of the call
    in_search,
    in_replace,
    current_search_content_lines,
    current_replace_content_lines,
    replacements,
    outcome,                        \* Running, or what the call raised or returned
    blocks,                         \* history: the blocks closed so far, in document order
    pc,                             \* "loop" while lines are read, then "done"
    calls,                          \* the calls of apply_diff that run concurrently
    read_lines,                     \* history: the diff lines read, where it is kept
    agent,                          \* the run of the code generation graph
    tool                            \* the invocation of modify_code_tool

vars == << original_content, in_search, in_replace,
           current_search_content_lines, current_replace_content_lines,
           replacements, outcome, blocks, pc, calls, read_lines, agent, tool >>

Locals ==
    [in_search |-> in_search, in_replace |-> in_replace,
     current_search_content_lines |-> current_search_content_lines,
     current_replace_content_lines |-> current_replace_content_lines,
     replacements |-> replacements,
     outcome |-> outcome]

SetLocals(loc) ==
    /\ in_search' = loc.in_search
    /\ in_replace' = loc.in_replace
    /\ current_search_content_lines' = loc.current_search_content_lines
    /\ current_replace_content_lines' = loc.current_replace_content_lines
    /\ replacements' = loc.replacements
    /\ outcome' = loc.outcome
    /\ pc' = IF loc.outcome = Running THEN "loop" ELSE "done"

Block(search_lines, replace_lines) ==
    [search_lines |-> search_lines, replace_lines |-> replace_lines]

RECURSIVE BlockLines(_)
BlockLines(bs) ==
    IF bs = << >> THEN 0
    ELSE Len(bs[1].search_lines) + Len(bs[1].replace_lines) + BlockLines(Tail(bs))

\* Marker lines of a block.
MarkersPerBlock == 3

\* Blocks opened so far.
NumBlocks == Len(blocks) + (IF in_search \/ in_replace THEN 1 ELSE 0)

\* Lines of the original text plus lines of the blocks of the diff read so far.
InputSize ==
    Len(SplitLines(original_content, FALSE)) + BlockLines(blocks) + MarkersPerBlock * NumBlocks
        + Len(current_search_content_lines) + Len(current_replace_content_lines)

\* The diff lines the model reads in the current state (its bounds).
Allowed(l) ==
    IF is_search_block_start(l)
    THEN (in_search \/ in_replace) \/ (Len(blocks) < MaxBlocks /\ InputSize < MaxSize)
    ELSE IF l \in MarkerLines THEN TRUE
    ELSE IF in_search
    THEN Len(current_search_content_lines) < MaxSearchLines /\ InputSize < MaxSize
    ELSE IF in_replace
    THEN Len(current_replace_content_lines) < MaxReplaceLines /\ InputSize < MaxSize
    ELSE TRUE

Init ==
    /\ original_content \in Texts
    /\ in_search = InitLocals.in_search
    /\ in_replace = InitLocals.in_replace
    /\ current_search_content_lines = InitLocals.current_search_content_lines
    /\ current_replace_content_lines = InitLocals.current_replace_content_lines
    /\ replacements = InitLocals.replacements
    /\ outcome = InitLocals.outcome
    /\ blocks = << >>
    /\ pc = "loop"
    /\ calls = << >>
    /\ read_lines = << >>
    /\ agent = << >>
    /\ tool = << >>

\* The loop reads the next line of the diff.
ReadLine ==
    /\ pc = "loop"
    /\ \E l \in DiffLines :
        /\ Allowed(l)
        /\ SetLocals(LoopBody(Locals, original_content, l))
        /\ blocks' = IF is_replace_block_end(l) /\ in_replace
                     THEN Append(blocks, Block(current_search_content_lines,
                                               current_replace_content_lines))
                     ELSE blocks
    /\ UNCHANGED << original_content, calls, read_lines, agent, tool >>

\* The diff has no more lines: the code after the loop runs.
EndOfDiff ==
    /\ pc = "loop"
    /\ SetLocals(AfterLoop(Locals, original_content))
    /\ UNCHANGED << original_content, blocks, calls, read_lines, agent, tool >>

Next == ReadLine \/ EndOfDiff

Spec == Init /\ [][Next]_vars

(***************************************************************************)
(* One call of apply_diff on a diff of a single well-formed block, with    *)
(* longer texts and search sections, blank search lines among them.        *)
(***************************************************************************)
LongTextLines == { <<"a">>, <<"b">> }

LongTexts ==
    { Join(ls, <<NL>>) \o tail :
        ls \in SeqsUpTo(LongTextLines, MaxLongLines),
        tail \in { << >>, <<NL>> } }

LongSearchLines == { <<"a">>, <<"b">>, << >> }

LongReplaceLines == { <<"b">> }

LongDiffLines == MarkerLines \cup LongSearchLines \cup LongReplaceLines

\* The diff lines read in the current state: the markers of one block in
\* their order, search lines and replace lines within the bounds.
LongAllowed(l) ==
    IF is_search_block_start(l)
    THEN ~in_search /\ ~in_replace /\ Len(blocks) = 0
    ELSE IF is_search_block_end(l) THEN in_search
    ELSE IF is_replace_block_end(l) THEN in_replace
    ELSE IF in_search
    THEN l \in LongSearchLines /\ Len(current_search_content_lines) < MaxLongLines
    ELSE IF in_replace
    THEN l \in LongReplaceLines
            /\ Len(current_replace_content_lines) < MaxReplaceLines
    ELSE FALSE

LongInit ==
    /\ original_content \in LongTexts
    /\ in_search = InitLocals.in_search
    /\ in_replace = InitLocals.in_replace
    /\ current_search_content_lines = InitLocals.current_search_content_lines
    /\ current_replace_content_lines = InitLocals.current_replace_content_lines
    /\ replacements = InitLocals.replacements
    /\ outcome = InitLocals.outcome
    /\ blocks = << >>
    /\ pc = "loop"
    /\ calls = << >>
    /\ read_lines = << >>
    /\ agent = << >>
    /\ tool = << >>

\* The loop reads the next line of the diff.
LongReadLine ==
    /\ pc = "loop"
    /\ \E l \in LongDiffLines :
        /\ LongAllowed(l)
        /\ SetLocals(LoopBody(Locals, original_content, l))
        /\ blocks' = IF is_replace_block_end(l) /\ in_replace
                     THEN Append(blocks, Block(current_search_content_lines,
                                               current_replace_content_lines))
                     ELSE blocks
    /\ UNCHANGED << original_content, calls, read_lines, agent, tool >>

\* The diff ends after its block.
LongEndOfDiff ==
    /\ Len(blocks) = 1
    /\ EndOfDiff

LongNext == LongReadLine \/ LongEndOfDiff

LongSpec == LongInit /\ [][LongNext]_vars

(***************************************************************************)
(* One call of apply_diff on a diff text of any lines: markers of several  *)
(* lengths, lines that nearly are markers, blank lines, lines with         *)
(* whitespace around them.  The lines read are kept in read_lines.         *)
(***************************************************************************)
MaxDiffLines == 6

ParseTexts == { << >>, <<"a">>, <<"a", NL, SP, "a", SP>> }

\* Markers with a longer run of their character.
LongMarkers ==
    { Rep("-", MinMarkerRun + 1) \o SEARCH_WORD,
      Rep("=", MinMarkerRun + 1),
      Rep("+", MinMarkerRun + 1) \o REPLACE_WORD }

\* Lines that no pattern matches: a run one short, a character before or
\* after a marker; a blank line, a line with whitespace around it, a plain line.
NearMarkers ==
    { Rep("-", MinMarkerRun - 1) \o SEARCH_WORD,
      <<SP>> \o SEPARATOR,
      END_MARKER \o <<SP>> }

ParseContentLines == { << >>, <<SP, "a", SP>>, <<"a">> }

ParseLines == MarkerLines \cup LongMarkers \cup NearMarkers \cup ParseContentLines

ParseInit ==
    /\ original_content \in ParseTexts
    /\ in_search = InitLocals.in_search
    /\ in_replace = InitLocals.in_replace
    /\ current_search_content_lines = InitLocals.current_search_content_lines
    /\ current_replace_content_lines = InitLocals.current_replace_content_lines
    /\ replacements = InitLocals.replacements
    /\ outcome = InitLocals.outcome
    /\ blocks = << >>
    /\ pc = "loop"
    /\ calls = << >>
    /\ read_lines = << >>
    /\ agent = << >>
    /\ tool = << >>

\* The loop reads the next line of the diff.
ParseReadLine ==
    /\ pc = "loop"
    /\ Len(read_lines) < MaxDiffLines
    /\ \E l \in ParseLines :
        /\ SetLocals(LoopBody(Locals, original_content, l))
        /\ blocks' = IF is_replace_block_end(l) /\ in_replace
                     THEN Append(blocks, Block(current_search_content_lines,
                                               current_replace_content_lines))
                     ELSE blocks
        /\ read_lines' = Append(read_lines, l)
    /\ UNCHANGED << original_content, calls, agent, tool >>

ParseNext == ParseReadLine \/ EndOfDiff

ParseSpec == ParseInit /\ [][ParseNext]_vars

RECURSIVE DiffLinesOf(_)
\* The lines of a diff text made of the blocks bs.
DiffLinesOf(bs) ==
    IF bs = << >> THEN << >>
    ELSE << START_MARKER >> \o bs[1].search_lines \o << SEPARATOR >>
         \o bs[1].replace_lines \o << END_MARKER >> \o DiffLinesOf(Tail(bs))

DiffText(bs) == Join(DiffLinesOf(bs), <<NL>>)

(***************************************************************************)
(* Several calls of apply_diff on threads of their own, their steps        *)
(* interleaved in any order.  A call is a frame: its two arguments, the    *)
(* list lines, the position of its loop in that list, and its locals.      *)
(***************************************************************************)
NumCalls == 2

CallIds == 1..NumCalls

\* The texts and the diff texts the concurrent calls are given.
ConcTexts == { <<"a">>, <<"b", NL, "a">> }

ConcDiffs ==
    { DiffText(<< Block(<< <<"a">> >>, << <<"b">> >>) >>),
      DiffText(<< Block(<< <<"a">> >>, << <<"b">> >>),
                  Block(<< <<"b">> >>, << >>) >>),
      DiffText(<< Block(<< <<"a">> >>, << >>) >>) \o <<NL>> \o SEPARATOR }

\* The frame of a call as it starts: lines 177 to 184.
NewCall(original_content_, diff_content) ==
    [original_content |-> original_content_,
     diff_content |-> diff_content,
     lines |-> SplitLines(diff_content, FALSE),
     next |-> 0,
     loc |-> InitLocals]

\* The locals a step of call c reads: one list of replacements, the one of
\* call 1, serves every call.
CallLocalsSharedList(cs, c) ==
    [cs[c].loc EXCEPT !.replacements = cs[1].loc.replacements]

\* The locals a step of call c reads: those of its own frame.
CallLocals(cs, c) == cs[c].loc

\* The streamed call of Spec does not run.
NoStreamedCall ==
    /\ original_content = << >>
    /\ in_search = InitLocals.in_search
    /\ in_replace = InitLocals.in_replace
    /\ current_search_content_lines = InitLocals.current_search_content_lines
    /\ current_replace_content_lines = InitLocals.current_replace_content_lines
    /\ replacements = InitLocals.replacements
    /\ outcome = InitLocals.outcome
    /\ blocks = << >>
    /\ pc = "idle"
    /\ read_lines = << >>

ConcInit ==
    /\ NoStreamedCall
    /\ agent = << >>
    /\ tool = << >>
    /\ calls \in [CallIds -> { NewCall(t, d) : t \in ConcTexts, d \in ConcDiffs }]

\* Call c runs one iteration of its loop.
CallReadLine(c) ==
    /\ calls[c].loc.outcome = Running
    /\ calls[c].next < Len(calls[c].lines)
    /\ calls' = [calls EXCEPT
                    ![c].loc = LoopBody(CallLocals(calls, c), calls[c].original_content,
                                        calls[c].lines[calls[c].next + 1]),
                    ![c].next = @ + 1]
    /\ UNCHANGED << original_content, in_search, in_replace,
                    current_search_content_lines, current_replace_content_lines,
                    replacements, outcome, blocks, pc, read_lines, agent, tool >>

\* Call c has left its loop and runs the code after it.
CallEndOfDiff(c) ==
    /\ calls[c].loc.outcome = Running
    /\ calls[c].next = Len(calls[c].lines)
    /\ calls' = [calls EXCEPT
                    ![c].loc = AfterLoop(CallLocals(calls, c), calls[c].original_content)]
    /\ UNCHANGED << original_content, in_search, in_replace,
                    current_search_content_lines, current_replace_content_lines,
                    replacements, outcome, blocks, pc, read_lines, agent, tool >>

ConcNext == \E c \in CallIds : CallReadLine(c) \/ CallEndOfDiff(c)

ConcSpec == ConcInit /\ [][ConcNext]_vars

(***************************************************************************)
(* The code generation graph of langchain_agent.py: generator, simulator   *)
(* and feedback_preparer, run by code_generation_graph.invoke.  agent is   *)
(* the graph state (CodeGenerationState) with the node to run next, the    *)
(* number of nodes run so far and, as history, the nodes run.              *)
(***************************************************************************)
MaxAttempts == 18

\* config = {"recursion_limit": 50}: the nodes the invocation may run.
RecursionLimit == 50

\* What the language model answers: the code of the first attempt, after
\* strip(), and the diff texts of the later attempts.
AgentCodes == { << >>, <<"a">>, <<"b", NL, "a">> }

AgentDiffs == ConcDiffs

\* What run_opentrons_simulation reports: success, success with warnings,
\* failure.
SimulationResults ==
    { [success |-> TRUE, has_warnings |-> FALSE],
      [success |-> TRUE, has_warnings |-> TRUE],
      [success |-> FALSE, has_warnings |-> FALSE] }

\* A value of an Optional field that is not None.
Some(v) == [some |-> v]

\* initial_state of run_code_generation_graph; START leads to the generator.
NewRun(max_iterations) ==
    [node |-> "generator",
     python_code |-> None,
     llm_diff_output |-> None,
     simulation_result |-> None,
     feedback_for_llm |-> << >>,
     attempts |-> 0,
     max_attempts |-> max_iterations,
     steps |-> 0,
     visits |-> << >>]

\* The except branch keeping a text changed part of the way: the previous
\* code without its first character stands for it.
AfterFailedDiffPartial(previous_code) ==
    IF previous_code = << >> THEN << >> ELSE Tail(previous_code)

\* except ValueError: final_code = previous_code
AfterFailedDiff(previous_code) == previous_code

\* What generate_code_node returns on a later attempt, applied being the
\* outcome of apply_diff(previous_code, generated_diff).
later_attempt(st, answer, applied) ==
    [python_code |-> IF applied.status = "raised"
                     THEN Some(AfterFailedDiff(st.python_code.some))
                     ELSE Some(applied.text),
     llm_diff_output |-> Some(answer),
     attempts |-> st.attempts + 1]

\* generate_code_node: the update it returns, answer being what the language
\* model gave (code on the first attempt, a diff text on the later ones).
generate_code_node(st, answer) ==
    IF st.attempts = 0
    THEN [python_code |-> Some(answer), llm_diff_output |-> None,
          attempts |-> st.attempts + 1]
    ELSE later_attempt(st, answer, apply_diff(st.python_code.some, answer))

\* simulate_code_node: empty code is not simulated.
simulate_code_node(st, simulated) ==
    IF st.python_code = None \/ st.python_code = Some(<< >>)
    THEN [success |-> FALSE, has_warnings |-> FALSE]
    ELSE simulated

\* should_continue: the conditional edge after the simulator.
should_continue(st) ==
    IF st.simulation_result = None THEN "continue"
    ELSE IF st.simulation_result.success /\ ~st.simulation_result.has_warnings
    THEN "end"
    ELSE IF st.simulation_result.success /\ st.simulation_result.has_warnings
    THEN "end"
    ELSE IF st.attempts >= st.max_attempts THEN "end"
    ELSE "continue"

\* The streamed call and the other components do not run.
OnlyAgent ==
    /\ NoStreamedCall
    /\ calls = << >>
    /\ tool = << >>

AgentInit ==
    /\ OnlyAgent
    /\ agent \in { NewRun(m) : m \in 0..MaxAttempts }

\* The state after a node has run: one more step, the node in the history.
Visited(st, name) == [st EXCEPT !.steps = @ + 1, !.visits = Append(@, name)]

\* The state with a node's update merged in and the edge taken.
Updated(st, update, next_node) ==
    [st EXCEPT !.python_code = update.python_code,
               !.llm_diff_output = update.llm_diff_output,
               !.attempts = update.attempts,
               !.node = next_node]

AgentUnchanged ==
    UNCHANGED << original_content, in_search, in_replace,
                 current_search_content_lines, current_replace_content_lines,
                 replacements, outcome, blocks, pc, calls, read_lines, tool >>

\* The generator node runs; its edge leads to the simulator.
AgentGenerator ==
    /\ agent.node = "generator"
    /\ agent.steps < RecursionLimit
    /\ \E answer \in (IF agent.attempts = 0 THEN AgentCodes ELSE AgentDiffs) :
          agent' = Updated(Visited(agent, "generator"),
                           generate_code_node(agent, answer), "simulator")
    /\ AgentUnchanged

\* The simulator node runs; should_continue picks the next node.
AgentSimulator ==
    /\ agent.node = "simulator"
    /\ agent.steps < RecursionLimit
    /\ \E simulated \in SimulationResults :
          LET st == [Visited(agent, "simulator") EXCEPT
                        !.simulation_result = simulate_code_node(agent, simulated)]
          IN  agent' = [st EXCEPT !.node = IF should_continue(st) = "continue"
                                           THEN "feedback_preparer" ELSE "END"]
    /\ AgentUnchanged

\* The feedback_preparer node runs; its edge leads back to the generator.
AgentFeedbackPreparer ==
    /\ agent.node = "feedback_preparer"
    /\ agent.steps < RecursionLimit
    /\ agent' = [Visited(agent, "feedback_preparer") EXCEPT
                    !.feedback_for_llm = <<"error_log">>,
                    !.node = "generator"]
    /\ AgentUnchanged

\* The recursion limit is reached before END: invoke raises and the run is
\* over without reaching END.
AgentOutOfSteps ==
    /\ agent.node \in { "generator", "simulator", "feedback_preparer" }
    /\ agent.steps >= RecursionLimit
    /\ agent' = [agent EXCEPT !.node = "aborted"]
    /\ AgentUnchanged

AgentNext ==
    AgentGenerator \/ AgentSimulator \/ AgentFeedbackPreparer \/ AgentOutOfSteps

AgentSpec == AgentInit /\ [][AgentNext]_vars

(***************************************************************************)
(* modify_code_tool: a plan, a diff of the language model applied to the   *)
(* original code, and one repaired diff if the first cannot be applied.    *)
(***************************************************************************)
\* The opening fence of a Markdown diff block (three backquotes and the
\* word diff) and the closing fence (three backquotes), one element of a
\* text each.
FENCE_DIFF == "fence diff"

FENCE == "fence"

\* _extract_diff_content: the stripped inside of the first fenced diff block,
\* or else the stripped response.
extract_diff_content(diff_response) ==
    LET closes(i) == { j \in (i + 1)..Len(diff_response) :
                          diff_response[j] \in { FENCE, FENCE_DIFF } }
        opens == { i \in 1..Len(diff_response) :
                      diff_response[i] = FENCE_DIFF /\ closes(i) # {} }
    IN  IF opens # {}
        THEN LET i == CHOOSE k \in opens : \A m \in opens : k <= m
                 j == CHOOSE k \in closes(i) : \A m \in closes(i) : k <= m
             IN  Strip(SubSeq(diff_response, i + 1, j - 1))
        ELSE Strip(diff_response)

ToolCodes == { <<"a">>, <<"b", NL, "a">>, <<"a", NL, "a">> }

\* Diff texts the language model may give: one that changes a to b, one that
\* searches a line c no code holds, one with a stray separator after a
\* complete block, one that changes a and then b.
ToolDiffs ==
    ConcDiffs \cup { DiffText(<< Block(<< <<"c">> >>, << <<"a">> >>) >>) }

\* Responses of the language model: a diff text alone, one inside a fenced
\* block between words, one between blank lines, and words alone.
ToolResponses ==
    ToolDiffs
    \cup { <<"x", NL, FENCE_DIFF, NL>> \o d \o <<NL, FENCE, NL, "x">> : d \in ToolDiffs }
    \cup { <<SP, NL>> \o d \o <<NL, SP>> : d \in ToolDiffs }
    \cup { <<"x">> }

\* An invocation of the tool before its first statement.
NewTool(original_code) ==
    [pc |-> "planner",
     original_code |-> original_code,
     diff_content |-> None,
     fixed_diff_content |-> None,
     modified_code |-> None,
     applies |-> << >>,
     result |-> None]

\* The text a retry working on what the first application left behind would
\* be given.
RetryTargetPatched(t) == IF t.original_code = << >> THEN << >> ELSE Tail(t.original_code)

\* The text the repaired diff is applied to: original_code.
RetryTarget(t) == t.original_code

\* One call of apply_diff, as the tool sees it.
Applied(original_content_, diff_content, applied) ==
    [original_content |-> original_content_, diff_content |-> diff_content,
     outcome |-> applied]

\* The streamed call and the other components do not run.
OnlyTool ==
    /\ NoStreamedCall
    /\ calls = << >>
    /\ agent = << >>

ToolInit ==
    /\ OnlyTool
    /\ tool \in { NewTool(c) : c \in ToolCodes }

ToolUnchanged ==
    UNCHANGED << original_content, in_search, in_replace,
                 current_search_content_lines, current_replace_content_lines,
                 replacements, outcome, blocks, pc, calls, read_lines, agent >>

\* The planner answers; json.loads accepts the plan or raises.
ToolPlanner ==
    /\ tool.pc = "planner"
    /\ \E plan_is_json \in BOOLEAN :
          tool' = [tool EXCEPT !.pc = IF plan_is_json THEN "differ" ELSE "raised"]
    /\ ToolUnchanged

\* The differ answers and its diff text is extracted.
ToolDiffer ==
    /\ tool.pc = "differ"
    /\ \E diff_response \in ToolResponses :
          tool' = [tool EXCEPT
                     !.diff_content = Some(extract_diff_content(Strip(diff_response))),
                     !.pc = "apply"]
    /\ ToolUnchanged

\* The tool after apply_diff(target, diff_content) gave applied: on a raise,
\* on_raise is where it goes.
AfterApply(t, target, diff_content, applied, on_raise) ==
    [t EXCEPT !.applies = Append(@, Applied(target, diff_content, applied)),
              !.modified_code = IF applied.status = "raised" THEN @
                                ELSE Some(applied.text),
              !.pc = IF applied.status = "raised" THEN on_raise ELSE "validate"]

\* try: modified_code = apply_diff(original_code, diff_content), and in the
\* except branch modified_code = apply_diff(original_code,
\* fixed_diff_content), whose ValueError leaves the tool.
ToolApply ==
    /\ tool.pc \in { "apply", "reapply" }
    /\ LET first == tool.pc = "apply"
           target == IF first THEN tool.original_code ELSE RetryTarget(tool)
           diff_content == IF first THEN tool.diff_content.some
                           ELSE tool.fixed_diff_content.some
       IN  tool' = AfterApply(tool, target, diff_content,
                              apply_diff(target, diff_content),
                              IF first THEN "fixer" ELSE "raised")
    /\ ToolUnchanged

\* except ValueError: the fixer answers and its diff text is extracted.
ToolFixer ==
    /\ tool.pc = "fixer"
    /\ \E fixed_diff_response \in ToolResponses :
          tool' = [tool EXCEPT
                     !.fixed_diff_content =
                         Some(extract_diff_content(Strip(fixed_diff_response))),
                     !.pc = "reapply"]
    /\ ToolUnchanged

\* _validate_python_syntax(modified_code): the tool returns modified_code or
\* raises.
ToolValidate ==
    /\ tool.pc = "validate"
    /\ \E syntax_valid \in BOOLEAN :
          tool' = IF syntax_valid
                  THEN [tool EXCEPT !.pc = "returned", !.result = tool.modified_code]
                  ELSE [tool EXCEPT !.pc = "raised"]
    /\ ToolUnchanged

ToolNext == ToolPlanner \/ ToolDiffer \/ ToolApply \/ ToolFixer \/ ToolValidate

ToolSpec == ToolInit /\ [][ToolNext]_vars

(***************************************************************************)
(* Vocabulary of the properties.                                           *)
(***************************************************************************)
\* The search content and the replace text of the k-th block read.
SearchContent(k) == Join(blocks[k].search_lines, <<NL>>)

ReplaceText(k) == Join(blocks[k].replace_lines, <<NL>>)

\* sub occurs in s at offset i.
OccursAt(s, sub, i) ==
    /\ 0 <= i
    /\ i + Len(sub) <= Len(s)
    /\ \A j \in 1..Len(sub) : s[i + j] = sub[j]

Occurrences(s, sub) == { i \in 0..Len(s) : OccursAt(s, sub, i) }

\* i is the lowest offset at which sub occurs in s.
FirstOccurrence(s, sub, i) ==
    OccursAt(s, sub, i) /\ \A j \in 0..(i - 1) : ~OccursAt(s, sub, j)

\* s with the span [i, j) replaced by x.
Patched(s, i, j, x) == SubSeq(s, 1, i) \o x \o SubSeq(s, j + 1, Len(s))

\* While the loop runs, replacements[k] is the replacement of the k-th block.
InLoop == pc = "loop"

Returned == outcome.status = "returned"

Raised(message) == outcome.status = "raised" /\ outcome.error = message

(***************************************************************************)
(* C1  Exactness preference.  A block whose search content occurs verbatim *)
(* in the original text resolves to the span of the first occurrence,      *)
(* start at its lowest offset i and end at i + len(S); a diff of that one  *)
(* block returns the text with only that occurrence replaced.              *)
(***************************************************************************)
C1_ExactnessPreference ==
    /\ InLoop =>
         \A k \in 1..Len(replacements) :
             Occurrences(original_content, SearchContent(k)) # {} =>
                 /\ FirstOccurrence(original_content, SearchContent(k),
                                    replacements[k].start)
                 /\ replacements[k].end
                        = replacements[k].start + Len(SearchContent(k))
    /\ (Returned /\ Len(blocks) = 1
            /\ Occurrences(original_content, SearchContent(1)) # {}) =>
         \E i \in Occurrences(original_content, SearchContent(1)) :
             /\ FirstOccurrence(original_content, SearchContent(1), i)
             /\ outcome.text = Patched(original_content, i,
                                       i + Len(SearchContent(1)), ReplaceText(1))

\* A one-block diff was applied whose search content occurs twice in the
\* text and which the line-trimmed matcher alone would resolve to another span.
C1_Witness ==
    /\ Returned
    /\ Len(blocks) = 1
    /\ Cardinality(Occurrences(original_content, SearchContent(1))) >= 2
    /\ line_trimmed_fallback_match(original_content, SearchContent(1), 0) # None
    /\ line_trimmed_fallback_match(original_content, SearchContent(1), 0).start
           # replacements[1].start
    /\ ReplaceText(1) # SearchContent(1)

(***************************************************************************)
(* Each matcher consulted alone on the original text.                      *)
(***************************************************************************)
SpanOf(r) == Span(r.start, r.end)

ExactAlone(S) ==
    IF Occurrences(original_content, S) = {} THEN None
    ELSE LET i == CHOOSE x \in Occurrences(original_content, S) :
                      FirstOccurrence(original_content, S, x)
         IN  Span(i, i + Len(S))

FuzzyAlone(S) == fuzzy_match(original_content, S)

TrimmedAlone(S) == line_trimmed_fallback_match(original_content, S, 0)

AnchorAlone(S) == block_anchor_fallback_match(original_content, S, 0)

\* None of the four matchers locates S.
Unresolvable(S) ==
    /\ ExactAlone(S) = None
    /\ FuzzyAlone(S) = None
    /\ TrimmedAlone(S) = None
    /\ AnchorAlone(S) = None

(***************************************************************************)
(* C2  Strategy ordering.  The span recorded for a block is the one of the *)
(* first matcher, in the order Exact, Fuzzy, LineTrimmed, BlockAnchor,     *)
(* that succeeds: a later matcher decides only when every earlier one has  *)
(* failed.                                                                 *)
(***************************************************************************)
C2_StrategyOrdering ==
    InLoop =>
      \A k \in 1..Len(replacements) :
        LET S == SearchContent(k)
            r == SpanOf(replacements[k])
        IN  /\ ExactAlone(S) # None => r = ExactAlone(S)
            /\ (ExactAlone(S) = None /\ FuzzyAlone(S) # None) => r = FuzzyAlone(S)
            /\ (ExactAlone(S) = None /\ FuzzyAlone(S) = None
                    /\ TrimmedAlone(S) # None) => r = TrimmedAlone(S)
            /\ (ExactAlone(S) = None /\ FuzzyAlone(S) = None
                    /\ TrimmedAlone(S) = None /\ AnchorAlone(S) # None)
                  => r = AnchorAlone(S)
            /\ ~Unresolvable(S)

\* A block was resolved by the fuzzy matcher to its window although the
\* line-trimmed and the anchor matcher both match at another position.
C2_Witness ==
    /\ Returned
    /\ Len(blocks) = 1
    /\ ExactAlone(SearchContent(1)) = None
    /\ FuzzyAlone(SearchContent(1)) # None
    /\ TrimmedAlone(SearchContent(1)) # None
    /\ AnchorAlone(SearchContent(1)) # None
    /\ TrimmedAlone(SearchContent(1)).start # FuzzyAlone(SearchContent(1)).start
    /\ AnchorAlone(SearchContent(1)).start # FuzzyAlone(SearchContent(1)).start
    /\ SpanOf(replacements[1]) = FuzzyAlone(SearchContent(1))

(***************************************************************************)
(* C3  Stitch correctness.  When the call returns, its replacements are    *)
(* the blocks' resolved spans and replace texts in ascending order of      *)
(* start, and the text returned is the original with each span replaced by *)
(* its replace text, everything outside the spans kept in place.           *)
(***************************************************************************)
\* The span the matchers give the block with search content S.
ResolvedSpan(S) ==
    IF ExactAlone(S) # None THEN ExactAlone(S)
    ELSE IF FuzzyAlone(S) # None THEN FuzzyAlone(S)
    ELSE IF TrimmedAlone(S) # None THEN TrimmedAlone(S)
    ELSE AnchorAlone(S)

\* rs lists the resolved blocks, each once.
ListsTheBlocks(rs) ==
    /\ Len(rs) = Len(blocks)
    /\ \E f \in [1..Len(blocks) -> 1..Len(blocks)] :
        /\ \A i, j \in 1..Len(blocks) : f[i] = f[j] => i = j
        /\ \A k \in 1..Len(blocks) :
            /\ SpanOf(rs[f[k]]) = ResolvedSpan(SearchContent(k))
            /\ rs[f[k]].content = ReplaceText(k)

RECURSIVE PatchedFromRight(_, _)
\* text with the spans of rs replaced one at a time, the rightmost first.
PatchedFromRight(text, rs) ==
    IF rs = << >> THEN text
    ELSE PatchedFromRight(
             Patched(text, rs[Len(rs)].start, rs[Len(rs)].end, rs[Len(rs)].content),
             SubSeq(rs, 1, Len(rs) - 1))

C3_StitchCorrectness ==
    Returned =>
        /\ ListsTheBlocks(replacements)
        /\ \A i, j \in 1..Len(replacements) :
               i < j => replacements[i].start <= replacements[j].start
        /\ outcome.text = PatchedFromRight(original_content, replacements)

\* Two blocks were applied whose spans lie in the text in the reverse of
\* their order in the diff, each with a replace text of its own.
C3_Witness ==
    /\ Returned
    /\ Len(blocks) = 2
    /\ ResolvedSpan(SearchContent(1)).start > ResolvedSpan(SearchContent(2)).start
    /\ ReplaceText(1) # << >>
    /\ ReplaceText(2) # << >>
    /\ ReplaceText(1) # SearchContent(1)
    /\ Len(original_content) > ResolvedSpan(SearchContent(1)).end
          - ResolvedSpan(SearchContent(1)).start

(***************************************************************************)
(* C4  Atomic failure.  A call that raises returns no text, and a call     *)
(* returns a text only when the whole diff was read with no section left   *)
(* open, every block read resolved and no two spans overlap: a diff with a *)
(* failing block never yields a text with the earlier blocks applied.      *)
(***************************************************************************)
ErrorMessages == { ERR_START, ERR_SEP, ERR_END, ERR_NOMATCH, ERR_OPEN, ERR_OVERLAP }

\* The spans of two replacements have a character position in common.
ShareAPosition(a, b) ==
    \E p \in 0..Len(original_content) :
        /\ a.start <= p /\ p < a.end
        /\ b.start <= p /\ p < b.end

C4_AtomicFailure ==
    /\ pc = "done" => outcome.status \in { "raised", "returned" }
    /\ outcome.status = "raised" =>
        /\ DOMAIN outcome = { "status", "error", "detail" }
        /\ outcome.error \in ErrorMessages
    /\ Returned =>
        /\ ~in_search /\ ~in_replace
        /\ Len(replacements) = Len(blocks)
        /\ \A k \in 1..Len(blocks) : ~Unresolvable(SearchContent(k))
        /\ \A i, j \in 1..Len(replacements) :
               i # j => ~ShareAPosition(replacements[i], replacements[j])

\* The first block resolved, with a replace text other than its search
\* content, the second block matched nothing, and the call raised.
C4_Witness ==
    /\ pc = "done"
    /\ Raised(ERR_NOMATCH)
    /\ Len(blocks) = 2
    /\ Len(replacements) = 1
    /\ replacements[1].content # SearchContent(1)
    /\ replacements[1].end > replacements[1].start

(***************************************************************************)
(* C5  Unmatched block reporting.  As soon as a block is read that none of *)
(* the four matchers locates, the call raises the no-match error carrying  *)
(* that block's search content: it is the first such block of the diff, no *)
(* block is skipped, and further unresolvable blocks after it change       *)
(* nothing.                                                                *)
(***************************************************************************)
C5_UnmatchedReporting ==
    /\ InLoop => Len(replacements) = Len(blocks)
    /\ \A k \in 1..Len(blocks) :
         Unresolvable(SearchContent(k)) =>
            /\ k = Len(blocks)
            /\ Len(replacements) = k - 1
            /\ \A j \in 1..(k - 1) : ~Unresolvable(SearchContent(j))
            /\ outcome = Raise(ERR_NOMATCH, SearchContent(k))
    /\ Raised(ERR_NOMATCH) =>
        /\ Unresolvable(outcome.detail)
        /\ \A l \in ContentLines :
             (Unresolvable(l) /\ l # outcome.detail) =>
                apply_diff(original_content,
                           DiffText(blocks \o << Block(<< l >>, << >>) >>)) = outcome

\* A block resolved, then a block with a search content that nothing
\* matches was read, and another unresolvable search content exists.
C5_Witness ==
    /\ Raised(ERR_NOMATCH)
    /\ Len(blocks) = 2
    /\ outcome.detail = SearchContent(2)
    /\ outcome.detail # << >>
    /\ ReplaceText(2) # << >>
    /\ \E l \in ContentLines : Unresolvable(l) /\ l # outcome.detail
    /\ replacements[1].end > replacements[1].start

(***************************************************************************)
(* C6  Non-overlap enforcement.  When the diff ends with every block       *)
(* resolved and two spans have a character position in common, the call    *)
(* raises the overlap error; and whenever a text is returned, of any two   *)
(* spans the one that starts first ends at or before the start of the      *)
(* other.                                                                  *)
(***************************************************************************)
C6_NonOverlap ==
    /\ (InLoop /\ ~in_search /\ ~in_replace
          /\ \E i, j \in 1..Len(replacements) :
                i # j /\ ShareAPosition(replacements[i], replacements[j]))
        => AfterLoop(Locals, original_content).outcome = Raise(ERR_OVERLAP, << >>)
    /\ Raised(ERR_OVERLAP) =>
          \E i, j \in 1..Len(replacements) :
              replacements[i].start <= replacements[j].start
                  /\ i # j /\ replacements[j].start < replacements[i].end
    /\ Returned =>
          \A i, j \in 1..Len(replacements) :
              replacements[i].start < replacements[j].start
                  => replacements[i].end <= replacements[j].start

\* Two blocks resolved to spans that start at different offsets and share a
\* character, and the call raised the overlap error.
C6_Witness ==
    /\ Raised(ERR_OVERLAP)
    /\ \E i, j \in 1..Len(replacements) :
          /\ replacements[i].start < replacements[j].start
          /\ ShareAPosition(replacements[i], replacements[j])

(***************************************************************************)
(* C7  Matching against the original only.  The span recorded for a block  *)
(* is the one the matchers give for the original text and that block's     *)
(* search content alone; a block whose search content occurs in an earlier *)
(* block's replace text but is matched by nothing in the original text     *)
(* makes the call raise the no-match error.                                *)
(***************************************************************************)
C7_OriginalOnly ==
    /\ InLoop =>
         \A k \in 1..Len(replacements) :
             SpanOf(replacements[k]) = ResolvedSpan(SearchContent(k))
    /\ \A k \in 2..Len(blocks) :
         (/\ Unresolvable(SearchContent(k))
          /\ \E j \in 1..(k - 1) :
                Occurrences(ReplaceText(j), SearchContent(k)) # {})
         => outcome = Raise(ERR_NOMATCH, SearchContent(k))

\* The second block searched for the replace text of the first, which the
\* original text does not hold, and the call raised.
C7_Witness ==
    /\ Raised(ERR_NOMATCH)
    /\ Len(blocks) = 2
    /\ SearchContent(2) # << >>
    /\ SearchContent(2) = ReplaceText(1)
    /\ Unresolvable(SearchContent(2))
    /\ replacements[1].end > replacements[1].start

(***************************************************************************)
(* C8  Marker grammar.  In every state the loop reaches (all blocks closed *)
(* so far resolved), reading a line raises a malformed-diff error exactly  *)
(* when it is a start marker with a section open, a separator with no      *)
(* search section open, or an end marker with no replace section open; the *)
(* end of the diff raises one exactly when a section is open.              *)
(***************************************************************************)
MalformedMessages == { ERR_START, ERR_SEP, ERR_END, ERR_OPEN }

Malformed(o) == o.status = "raised" /\ o.error \in MalformedMessages

C8_MarkerGrammar ==
    /\ ~(in_search /\ in_replace)
    /\ InLoop =>
        /\ \A l \in DiffLines :
            LET o == LoopBody(Locals, original_content, l).outcome
            IN  /\ Malformed(o) <=>
                     \/ is_search_block_start(l) /\ (in_search \/ in_replace)
                     \/ is_search_block_end(l) /\ ~in_search
                     \/ is_replace_block_end(l) /\ ~in_replace
                /\ (is_search_block_start(l) /\ (in_search \/ in_replace))
                       => o = Raise(ERR_START, << >>)
                /\ (is_search_block_end(l) /\ ~in_search)
                       => o = Raise(ERR_SEP, << >>)
                /\ (is_replace_block_end(l) /\ ~in_replace)
                       => o = Raise(ERR_END, << >>)
        /\ Malformed(AfterLoop(Locals, original_content).outcome)
               <=> (in_search \/ in_replace)
    /\ Raised(ERR_START) => (in_search \/ in_replace)
    /\ Raised(ERR_SEP) => ~in_search
    /\ Raised(ERR_END) => ~in_replace
    /\ Raised(ERR_OPEN) => (in_search \/ in_replace)

\* After a block that resolved, a separator was read inside the replace
\* section of the next block and the call raised.
C8_Witness ==
    /\ Raised(ERR_SEP)
    /\ in_replace
    /\ Len(replacements) = 1
    /\ current_search_content_lines # << >>

(***************************************************************************)
(* C9  No-op diffs.  As claimed: when every block's replace lines equal    *)
(* its search lines and the call returns, the text returned is the         *)
(* original text, whichever matcher resolved the blocks.                   *)
(***************************************************************************)
NoOpDiff == \A k \in 1..Len(blocks) : blocks[k].replace_lines = blocks[k].search_lines

AllResolvedExactly == \A k \in 1..Len(blocks) : ExactAlone(SearchContent(k)) # None

C9_NoOpAnyMatcher ==
    (Returned /\ NoOpDiff) => outcome.text = original_content

(***************************************************************************)
(* C9 as amended: when every block's replace lines equal its search lines, *)
(* every block's search content occurs verbatim in the original text (the  *)
(* exact matcher resolves it) and the call returns, the text returned is   *)
(* the original text.                                                      *)
(***************************************************************************)
C9_NoOpExact ==
    (Returned /\ NoOpDiff /\ AllResolvedExactly) => outcome.text = original_content

\* Two no-op blocks, one of them with a search content that occurs in the
\* text, were applied by the exact matcher.
C9_Witness ==
    /\ Returned
    /\ NoOpDiff
    /\ AllResolvedExactly
    /\ Len(blocks) = 2
    /\ \E k \in 1..Len(blocks) : SearchContent(k) # << >>
    /\ outcome.text = original_content

(***************************************************************************)
(* C10  Round trip.  As claimed: when a one-block diff S -> X returns R    *)
(* and X occurs exactly once in R, the diff X -> S applied to R returns    *)
(* the original text, whichever matcher resolved S.                        *)
(***************************************************************************)
\* The one-block diff read, inverted: search and replace lines exchanged.
InverseDiff == DiffText(<< Block(blocks[1].replace_lines, blocks[1].search_lines) >>)

RoundTripCase ==
    /\ Returned
    /\ Len(blocks) = 1
    /\ Cardinality(Occurrences(outcome.text, ReplaceText(1))) = 1

C10_RoundTripAnyMatcher ==
    RoundTripCase => apply_diff(outcome.text, InverseDiff) = Return(original_content)

(***************************************************************************)
(* C10 as amended: when a one-block diff S -> X returns R, S occurs        *)
(* verbatim in the original text (the exact matcher resolved it) and X     *)
(* occurs exactly once in R, the diff X -> S applied to R returns the      *)
(* original text.                                                          *)
(***************************************************************************)
C10_RoundTripExact ==
    (RoundTripCase /\ ExactAlone(SearchContent(1)) # None)
        => apply_diff(outcome.text, InverseDiff) = Return(original_content)

\* A block with a search content of several lines, found verbatim, was
\* replaced by another text that occurs once in the result.
C10_Witness ==
    /\ RoundTripCase
    /\ ExactAlone(SearchContent(1)) # None
    /\ Len(blocks[1].search_lines) >= 2
    /\ ReplaceText(1) # << >>
    /\ ReplaceText(1) # SearchContent(1)
    /\ outcome.text # original_content
    /\ apply_diff(outcome.text, InverseDiff) = Return(original_content)

(***************************************************************************)
(* Lines of the original text and of a block, as the properties speak of   *)
(* them: without their separators.                                         *)
(***************************************************************************)
OriginalLines == SplitLines(original_content, FALSE)

\* Pairs (i, j) such that original line i equals search line j.
SharedStarts(ol, sl) ==
    { p \in (0..(Len(ol) - 1)) \X (0..(Len(sl) - 1)) : ol[p[1] + 1] = sl[p[2] + 1] }

\* Length of the longest run of consecutive lines of sl that equal
\* consecutive lines of ol; 0 when no line is shared.
LongestRun(ol, sl) ==
    LET lens == { RunLen(ol, sl, p[1], p[2]) : p \in SharedStarts(ol, sl) }
    IN  IF lens = {} THEN 0 ELSE CHOOSE m \in lens : \A x \in lens : x <= m

\* The runs of that length.
LongestRuns(ol, sl) ==
    { p \in SharedStarts(ol, sl) : RunLen(ol, sl, p[1], p[2]) = LongestRun(ol, sl) }

\* The window of n lines that a run starting at original line a and search
\* line b locates lies inside the original lines.
WindowInBounds(ol, n, a, b) == a - b >= 0 /\ a - b + n <= Len(ol)

(***************************************************************************)
(* C11  Fuzzy threshold.  As claimed: for a block of n search lines with   *)
(* no exact match and m the longest run of consecutive search lines equal  *)
(* to consecutive original lines (the block's last line counted like any   *)
(* other), the fuzzy matcher accepts when 10*m >= 6*n and the window is in *)
(* bounds, and rejects when 10*m < 6*n, the line-trimmed matcher deciding  *)
(* next.                                                                   *)
(***************************************************************************)
C11_FuzzyThreshold ==
    \A k \in 1..Len(blocks) :
        LET S == SearchContent(k)
            sl == blocks[k].search_lines
            n == Len(sl)
            m == LongestRun(OriginalLines, sl)
        IN  ExactAlone(S) = None =>
              /\ (/\ m > 0
                  /\ 10 * m >= 6 * n
                  /\ \A p \in LongestRuns(OriginalLines, sl) :
                        WindowInBounds(OriginalLines, n, p[1], p[2]))
                   => FuzzyAlone(S) # None
              /\ 10 * m < 6 * n =>
                   /\ FuzzyAlone(S) = None
                   /\ TrimmedAlone(S) # None =>
                        /\ Len(replacements) >= k
                        /\ SpanOf(replacements[k]) = TrimmedAlone(S)

(***************************************************************************)
(* Whole lines of a text located by its separators.                        *)
(***************************************************************************)
\* Offsets of the separators of text, in ascending order.
SeparatorOffsets(text) ==
    LET pos == { k \in 0..(Len(text) - 1) : text[k + 1] = NL }
        Rank(k) == Cardinality({ j \in pos : j < k })
    IN  [r \in 1..Cardinality(pos) |-> CHOOSE k \in pos : Rank(k) = r - 1]

\* Offset of the first character of line i (lines counted from 0).
LineStart(text, i) == IF i = 0 THEN 0 ELSE SeparatorOffsets(text)[i] + 1

\* Offset just after the last character of line i, its separator excluded.
LineEnd(text, i) ==
    IF i + 1 <= Len(SeparatorOffsets(text))
    THEN SeparatorOffsets(text)[i + 1]
    ELSE Len(text)

\* The span of the whole lines [i, i+n) of text, without the separator
\* after the last of them.
LinesSpan(text, i, n) == Span(LineStart(text, i), LineEnd(text, i + n - 1))

\* Line indices i at which the n lines of sl equal original lines i..i+n-1
\* once every line is trimmed on both sides.
TrimmedRuns(sl) ==
    { i \in 0..(Len(OriginalLines) - Len(sl)) :
        \A j \in 1..Len(sl) : Strip(OriginalLines[i + j]) = Strip(sl[j]) }

(***************************************************************************)
(* C12  Whitespace drift.  As claimed: a block of n >= 1 search lines that *)
(* does not occur verbatim in the original text but equals exactly one run *)
(* of n original lines once all lines are trimmed resolves to the span of  *)
(* those whole lines, the separator after the last one excluded, and a     *)
(* diff of that one block returns the text with that span replaced.        *)
(***************************************************************************)
DriftCase(k) ==
    /\ Len(blocks[k].search_lines) >= 1
    /\ ExactAlone(SearchContent(k)) = None
    /\ Cardinality(TrimmedRuns(blocks[k].search_lines)) = 1

DriftSpan(k) ==
    LinesSpan(original_content,
              CHOOSE i \in TrimmedRuns(blocks[k].search_lines) : TRUE,
              Len(blocks[k].search_lines))

C12_WhitespaceDrift ==
    /\ \A k \in 1..Len(blocks) :
         DriftCase(k) =>
            /\ Len(replacements) >= k
            /\ InLoop => SpanOf(replacements[k]) = DriftSpan(k)
    /\ (pc = "done" /\ Len(blocks) = 1 /\ ~Malformed(outcome) /\ DriftCase(1)) =>
         outcome = Return(Patched(original_content, DriftSpan(1).start,
                                  DriftSpan(1).end, ReplaceText(1)))

(***************************************************************************)
(* C13  Anchor minimum length.  For a block of fewer than 3 search lines   *)
(* the anchor matcher reports failure; when the exact, the fuzzy and the   *)
(* line-trimmed matcher all fail for a block of 1 or 2 lines the call      *)
(* raises the no-match error with that block's search content, also when   *)
(* the block's first and last trimmed lines are the first and last trimmed *)
(* lines of some run of original lines.                                    *)
(***************************************************************************)
\* Some run of original lines starts with the block's first line and ends
\* with its last line, all trimmed.
AnchorsMatchSomeRun(sl) ==
    \E i, j \in 1..Len(OriginalLines) :
        /\ i <= j
        /\ Strip(OriginalLines[i]) = Strip(sl[1])
        /\ Strip(OriginalLines[j]) = Strip(sl[Len(sl)])

C13_AnchorMinimumLength ==
    \A k \in 1..Len(blocks) :
        LET S == SearchContent(k)
        IN  Len(blocks[k].search_lines) < 3 =>
              /\ AnchorAlone(S) = None
              /\ (/\ Len(blocks[k].search_lines) >= 1
                  /\ ExactAlone(S) = None
                  /\ FuzzyAlone(S) = None
                  /\ TrimmedAlone(S) = None)
                   => outcome = Raise(ERR_NOMATCH, S)

\* A block of 2 lines whose first and last trimmed lines are those of a
\* run of 3 original lines, and of no shorter run, was located by no matcher
\* and the call raised.
C13_Witness ==
    /\ Raised(ERR_NOMATCH)
    /\ Len(blocks) = 1
    /\ Len(blocks[1].search_lines) = 2
    /\ blocks[1].search_lines[1] # blocks[1].search_lines[2]
    /\ \E i \in 1..(Len(OriginalLines) - 2) :
          /\ Strip(OriginalLines[i]) = Strip(blocks[1].search_lines[1])
          /\ Strip(OriginalLines[i + 2]) = Strip(blocks[1].search_lines[2])
    /\ outcome.detail = SearchContent(1)
    /\ ReplaceText(1) # << >>

(***************************************************************************)
(* C14  Independence of concurrent calls.  With the steps of the calls     *)
(* interleaved in any order, every call is at each moment where it is when *)
(* run alone on the lines it has read so far, and ends with the result     *)
(* (text or error) of apply_diff run alone on its two arguments; calls     *)
(* given the same arguments end with the same result.                      *)
(***************************************************************************)
C14_Independence ==
    /\ \A c \in DOMAIN calls :
        LET alone == RunLoop(InitLocals, calls[c].original_content,
                             SubSeq(calls[c].lines, 1, calls[c].next))
        IN  /\ calls[c].loc.outcome = Running => calls[c].loc = alone
            /\ calls[c].loc.outcome # Running =>
                  calls[c].loc.outcome
                      = apply_diff(calls[c].original_content, calls[c].diff_content)
    /\ \A c, d \in DOMAIN calls :
        (/\ calls[c].original_content = calls[d].original_content
         /\ calls[c].diff_content = calls[d].diff_content
         /\ calls[c].loc.outcome # Running
         /\ calls[d].loc.outcome # Running)
          => calls[c].loc.outcome = calls[d].loc.outcome

\* Call 2 returned a patched text while call 1, given another text and
\* another diff, is inside its loop with one block resolved and the next open.
C14_Witness ==
    /\ DOMAIN calls = CallIds
    /\ calls[1].original_content # calls[2].original_content
    /\ calls[1].diff_content # calls[2].diff_content
    /\ calls[1].loc.outcome = Running
    /\ Len(calls[1].loc.replacements) = 1
    /\ calls[1].loc.in_search
    /\ calls[2].loc.outcome.status = "returned"
    /\ calls[2].loc.outcome.text # calls[2].original_content
    /\ Len(calls[2].loc.replacements) = 1

(***************************************************************************)
(* C15  Same window, same span.  As claimed: a block of n search lines     *)
(* that the fuzzy, the line-trimmed or the anchor matcher resolves to the  *)
(* window of original lines [i, i+n), with further text after the window,  *)
(* gets the span from the first character of line i to the end of line     *)
(* i+n-1, the separator of that line excluded, whichever of the three      *)
(* resolved it; a diff of that one block returns the text with that span   *)
(* replaced, so that the line after the window still starts a line.        *)
(***************************************************************************)
\* The original line in which offset p lies.
LineOf(p) == Cardinality({ q \in 0..(p - 1) : original_content[q + 1] = NL })

\* The k-th block was resolved by a line-based matcher to a window that is
\* followed by further original lines.
WindowCase(k) ==
    /\ Len(replacements) >= k
    /\ ExactAlone(SearchContent(k)) = None
    /\ LineOf(ResolvedSpan(SearchContent(k)).start) + Len(blocks[k].search_lines)
           < Len(OriginalLines)

WindowSpan(k) ==
    LinesSpan(original_content, LineOf(ResolvedSpan(SearchContent(k)).start),
              Len(blocks[k].search_lines))

C15_SameWindowSameSpan ==
    /\ \A k \in 1..Len(blocks) :
         WindowCase(k) => ResolvedSpan(SearchContent(k)) = WindowSpan(k)
    /\ (Returned /\ Len(blocks) = 1 /\ WindowCase(1)) =>
         outcome.text = Patched(original_content, WindowSpan(1).start,
                                WindowSpan(1).end, ReplaceText(1))

(***************************************************************************)
(* The run of lines the fuzzy matcher anchors on: lines compared with      *)
(* their endings, the longest shared run, of several the one that starts   *)
(* first in the original and then first in the search content.             *)
(***************************************************************************)
OriginalLinesWithEnds == SplitLines(original_content, TRUE)

SearchLinesWithEnds(k) == SplitLines(SearchContent(k), TRUE)

SelectedRun(ol, sl) ==
    CHOOSE p \in LongestRuns(ol, sl) :
        \A q \in LongestRuns(ol, sl) :
            p[1] < q[1] \/ (p[1] = q[1] /\ p[2] <= q[2])

\* The k-th block was resolved by the fuzzy matcher.
ResolvedByFuzzy(k) ==
    /\ Len(replacements) >= k
    /\ ExactAlone(SearchContent(k)) = None
    /\ FuzzyAlone(SearchContent(k)) # None

(***************************************************************************)
(* C16  Fuzzy window anchoring.  As claimed: when the fuzzy matcher        *)
(* resolves a block, the longest shared run starting at original line a    *)
(* and search line b, the span covers exactly the original lines           *)
(* [a-b, a-b+n), n the number of lines written in the search section,      *)
(* blank lines included (the separator after the last line of the window   *)
(* may or may not be part of the span).                                    *)
(***************************************************************************)
C16_FuzzyWindowAnchoring ==
    \A k \in 1..Len(blocks) :
        ResolvedByFuzzy(k) =>
            LET run == SelectedRun(OriginalLinesWithEnds, SearchLinesWithEnds(k))
                first == run[1] - run[2]
                n == Len(blocks[k].search_lines)
                r == ResolvedSpan(SearchContent(k))
            IN  /\ first >= 0
                /\ first + n <= Len(OriginalLines)
                /\ r.start = LineStart(original_content, first)
                /\ r.end \in { LineEnd(original_content, first + n - 1),
                               LineEnd(original_content, first + n - 1) + 1 }

(***************************************************************************)
(* C17  Fuzzy out-of-bounds rejection.  When the exact search fails and    *)
(* the selected longest run reaches the threshold but its window starts    *)
(* before line 0 or ends after the last original line, the fuzzy matcher   *)
(* fails, whatever other runs there are, and the line-trimmed matcher, and *)
(* after it the anchor matcher, decide the block; a span the fuzzy matcher *)
(* returns lies inside the original text.                                  *)
(***************************************************************************)
\* The selected run of block k reaches the threshold and its window of
\* as many lines as the search content has is out of bounds.
SelectedOutOfBounds(k) ==
    LET ol == OriginalLinesWithEnds
        sl == SearchLinesWithEnds(k)
    IN  /\ ExactAlone(SearchContent(k)) = None
        /\ LongestRun(ol, sl) > 0
        /\ 10 * LongestRun(ol, sl) >= 6 * Len(sl)
        /\ ~WindowInBounds(ol, Len(sl), SelectedRun(ol, sl)[1], SelectedRun(ol, sl)[2])

C17_FuzzyOutOfBounds ==
    \A k \in 1..Len(blocks) :
        LET S == SearchContent(k)
        IN  /\ SelectedOutOfBounds(k) =>
                /\ FuzzyAlone(S) = None
                /\ TrimmedAlone(S) # None =>
                     /\ Len(replacements) >= k
                     /\ SpanOf(replacements[k]) = TrimmedAlone(S)
                /\ (TrimmedAlone(S) = None /\ AnchorAlone(S) # None) =>
                     /\ Len(replacements) >= k
                     /\ SpanOf(replacements[k]) = AnchorAlone(S)
                /\ (TrimmedAlone(S) = None /\ AnchorAlone(S) = None) =>
                     outcome = Raise(ERR_NOMATCH, S)
            /\ FuzzyAlone(S) # None =>
                /\ 0 <= FuzzyAlone(S).start
                /\ FuzzyAlone(S).start <= FuzzyAlone(S).end
                /\ FuzzyAlone(S).end <= Len(original_content)

\* The selected run's window starts before line 0 while another run of the
\* same length has its window in bounds; the block was then located by no
\* matcher.
C17_Witness ==
    /\ Len(blocks) = 1
    /\ SelectedOutOfBounds(1)
    /\ SelectedRun(OriginalLinesWithEnds, SearchLinesWithEnds(1))[1]
          < SelectedRun(OriginalLinesWithEnds, SearchLinesWithEnds(1))[2]
    /\ \E p \in LongestRuns(OriginalLinesWithEnds, SearchLinesWithEnds(1)) :
          WindowInBounds(OriginalLinesWithEnds, Len(SearchLinesWithEnds(1)), p[1], p[2])
    /\ Raised(ERR_NOMATCH)

(***************************************************************************)
(* Diff texts that break the marker grammar after the blocks read so far.  *)
(***************************************************************************)
\* Lines that make a diff malformed when they follow complete blocks: a
\* separator or an end marker outside a block, a block left open, a start
\* marker inside a block.
GrammarViolations ==
    { << SEPARATOR >>, << END_MARKER >>, << START_MARKER >>,
      << START_MARKER, START_MARKER >> }

\* The result of apply_diff on the blocks read so far followed by v.
ResultWith(v) ==
    apply_diff(original_content, Join(DiffLinesOf(blocks) \o v, <<NL>>))

\* The blocks read so far are complete: none is open, and the call either
\* goes on or has raised for the last of them.
BlocksComplete ==
    \/ InLoop /\ ~in_search /\ ~in_replace
    \/ Raised(ERR_NOMATCH)

(***************************************************************************)
(* C18  Parse before match.  As claimed: a diff that violates the marker   *)
(* grammar at some line makes the call raise a malformed-diff error, also  *)
(* when a well-formed block before that line has a search content that no  *)
(* matcher locates.                                                        *)
(***************************************************************************)
C18_ParseBeforeMatch ==
    BlocksComplete => \A v \in GrammarViolations : Malformed(ResultWith(v))

(***************************************************************************)
(* C18 as amended: blocks are matched as they are read.  A diff that       *)
(* violates the marker grammar at some line makes the call raise a         *)
(* malformed-diff error when every block closed before that line resolves; *)
(* when one of them has a search content that no matcher locates, the call *)
(* raises the no-match error for the first such block.                     *)
(***************************************************************************)
C18_MatchWhileParsing ==
    BlocksComplete =>
        \A v \in GrammarViolations :
            IF \E k \in 1..Len(blocks) : Unresolvable(SearchContent(k))
            THEN LET k == CHOOSE i \in 1..Len(blocks) :
                              /\ Unresolvable(SearchContent(i))
                              /\ \A j \in 1..(i - 1) : ~Unresolvable(SearchContent(j))
                 IN  ResultWith(v) = Raise(ERR_NOMATCH, SearchContent(k))
            ELSE Malformed(ResultWith(v))

\* A first block resolved, the second has a search content that nothing
\* matches, and the diff goes on with a stray separator: the call raises
\* the no-match error.
C18_Witness ==
    /\ Raised(ERR_NOMATCH)
    /\ Len(blocks) = 2
    /\ Len(replacements) = 1
    /\ replacements[1].end > replacements[1].start
    /\ SearchContent(2) # << >>
    /\ ResultWith(<< SEPARATOR >>) = Raise(ERR_NOMATCH, SearchContent(2))

(***************************************************************************)
(* The lines of a block's search content as the line-trimmed and the       *)
(* anchor matcher receive them.                                            *)
(***************************************************************************)
SearchLines(k) == SplitLines(SearchContent(k), FALSE)

\* The least element of a non-empty set of line indices.
Lowest(I) == CHOOSE i \in I : \A j \in I : i <= j

AnchorRuns(sl) ==
    { i \in 0..(Len(OriginalLines) - Len(sl)) :
        /\ Strip(OriginalLines[i + 1]) = Strip(sl[1])
        /\ Strip(OriginalLines[i + Len(sl)]) = Strip(sl[Len(sl)]) }

Reordered == << blocks[2], blocks[1] >>

\* The call is over and each of the two blocks of the diff resolved.
TwoBlocksResolved ==
    /\ pc = "done"
    /\ Len(blocks) = 2
    /\ Returned \/ Raised(ERR_OVERLAP)

\* The spans the two blocks resolved to start at different offsets.
DistinctStarts == replacements[1].start # replacements[2].start

\* C21 as claimed: whatever the spans, the blocks in the other order give
\* the same outcome, the same text returned or OverlappingEdits again.
C21_BlockOrderIndependence ==
    TwoBlocksResolved =>
        apply_diff(original_content, DiffText(Reordered)) = outcome

\* C21 amended: when the two blocks resolve to spans that start at different
\* offsets, an empty span among them or not, the blocks in the other order
\* give the same outcome, the same text returned or OverlappingEdits again.
C21_OrderIndependenceDistinctStarts ==
    (TwoBlocksResolved /\ DistinctStarts) =>
        apply_diff(original_content, DiffText(Reordered)) = outcome

\* Two blocks were applied of which the first in the diff resolved to the
\* later span and the second to an empty span, and text was put in.
C21_Witness ==
    /\ TwoBlocksResolved
    /\ Returned
    /\ MatchBlock(original_content, SearchContent(1)).start
          > MatchBlock(original_content, SearchContent(2)).start
    /\ replacements[1].end = replacements[1].start
    /\ replacements[1].content # << >>
    /\ replacements[2].end > replacements[2].start
    /\ outcome.text # original_content

(***************************************************************************)
(* C22  Empty search block.  A block whose search section has no line, or  *)
(* one empty line, is resolved by the exact strategy to the span [0,0) and *)
(* is never reported as unmatched; when it is the only block of the diff   *)
(* the text returned is the replace text with the original text right      *)
(* after it.                                                               *)
(***************************************************************************)
\* The search section of the k-th block has no line or one empty line.
EmptySearchSection(k) == blocks[k].search_lines \in { << >>, << << >> >> }

C22_EmptySearchBlock ==
    \A k \in 1..Len(blocks) :
        EmptySearchSection(k) =>
          /\ MatchBlock(original_content, SearchContent(k))
                = [by |-> "exact", start |-> 0, end |-> 0]
          /\ ~Raised(ERR_NOMATCH)
          /\ InLoop => SpanOf(replacements[k]) = Span(0, 0)
          /\ (pc = "done" /\ Len(blocks) = 1) =>
                outcome = Return(Join(blocks[1].replace_lines, <<NL>>)
                                    \o original_content)

\* A block whose search section is one empty line put its replace text in
\* front of a text of several lines.
C22_Witness ==
    /\ pc = "done"
    /\ blocks = << Block(<< << >> >>, << <<"b">> >>) >>
    /\ Len(OriginalLines) >= 2
    /\ Returned
    /\ outcome.text = <<"b">> \o original_content

(***************************************************************************)
(* The three marker shapes, character by character.                        *)
(***************************************************************************)
\* The first n characters of l are all c.
AllChar(l, c, n) == \A i \in 1..n : l[i] = c

\* 7 or more "-", then " SEARCH", nothing else.
StartShape(l) ==
    /\ Len(l) >= 7 + 7
    /\ AllChar(l, "-", Len(l) - 7)
    /\ SubSeq(l, Len(l) - 6, Len(l)) = <<" ", "S", "E", "A", "R", "C", "H">>

\* 7 or more "=", nothing else.
SeparatorShape(l) == Len(l) >= 7 /\ AllChar(l, "=", Len(l))

\* 7 or more "+", then " REPLACE", nothing else.
EndShape(l) ==
    /\ Len(l) >= 7 + 8
    /\ AllChar(l, "+", Len(l) - 8)
    /\ SubSeq(l, Len(l) - 7, Len(l)) = <<" ", "R", "E", "P", "L", "A", "C", "E">>

MarkerShape(l) == StartShape(l) \/ SeparatorShape(l) \/ EndShape(l)

\* The step reads the diff line l.
Reads(l) == pc = "loop" /\ read_lines' = Append(read_lines, l)

StartPositions == { i \in 1..Len(read_lines) : StartShape(read_lines[i]) }

SeparatorPositions == { i \in 1..Len(read_lines) : SeparatorShape(read_lines[i]) }

EndPositions == { i \in 1..Len(read_lines) : EndShape(read_lines[i]) }

\* The k-th position of the set I, counted upward.
KthOf(I, k) == CHOOSE i \in I : Cardinality({ j \in I : j <= i }) = k

\* The highest position of the set I.
LastOf(I) == CHOOSE i \in I : \A j \in I : j <= i

\* The lines read between the k-th start marker and the k-th separator, and
\* between the k-th separator and the k-th end marker.
SearchSection(k) ==
    SubSeq(read_lines, KthOf(StartPositions, k) + 1, KthOf(SeparatorPositions, k) - 1)

ReplaceSection(k) ==
    SubSeq(read_lines, KthOf(SeparatorPositions, k) + 1, KthOf(EndPositions, k) - 1)

\* The lines x1, ..., xn as the text x1 "\n" x2 "\n" ... xn, no newline last.
RECURSIVE JoinedWithNewlines(_)
JoinedWithNewlines(ls) ==
    IF Len(ls) = 0 THEN << >>
    ELSE IF Len(ls) = 1 THEN ls[1]
    ELSE JoinedWithNewlines(SubSeq(ls, 1, Len(ls) - 1)) \o <<"\n">> \o ls[Len(ls)]

(***************************************************************************)
(* C24  Verbatim section content.  The lines collected for the open        *)
(* section are the lines read since its marker, unchanged and in order;    *)
(* the replace text recorded for a closed block is the lines of its        *)
(* replace section joined with single newlines, none at the end, and the   *)
(* search content matched, and named when no strategy locates it, is the   *)
(* lines of its search section joined the same way.                        *)
(***************************************************************************)
C24_VerbatimSections ==
    /\ (InLoop /\ in_search) =>
          current_search_content_lines
              = SubSeq(read_lines, LastOf(StartPositions) + 1, Len(read_lines))
    /\ (InLoop /\ in_replace) =>
          /\ current_search_content_lines
                = SubSeq(read_lines, LastOf(StartPositions) + 1,
                         LastOf(SeparatorPositions) - 1)
          /\ current_replace_content_lines
                = SubSeq(read_lines, LastOf(SeparatorPositions) + 1, Len(read_lines))
    /\ InLoop =>
          \A k \in 1..Len(replacements) :
              /\ replacements[k].content = JoinedWithNewlines(ReplaceSection(k))
              /\ LET m == MatchBlock(original_content,
                                     JoinedWithNewlines(SearchSection(k)))
                 IN  m.by # "none" /\ SpanOf(replacements[k]) = Span(m.start, m.end)
    /\ Raised(ERR_NOMATCH) =>
          outcome.detail
              = JoinedWithNewlines(SearchSection(Cardinality(EndPositions)))

\* A block with a line with whitespace around it in its search section and
\* a blank line before such a line in its replace section was applied.
C24_Witness ==
    /\ Returned
    /\ Len(replacements) = 1
    /\ SearchSection(1) = << <<" ", "a", " ">> >>
    /\ ReplaceSection(1) = << << >>, <<" ", "a", " ">> >>
    /\ replacements[1].content = <<"\n", " ", "a", " ">>
    /\ replacements[1].end - replacements[1].start = 3

(***************************************************************************)
(* C25  Marker recognition.  A line read acts as a start marker exactly    *)
(* when it is 7 or more "-" then " SEARCH", as a separator exactly when it *)
(* is 7 or more "=", as an end marker exactly when it is 7 or more "+"     *)
(* then " REPLACE"; any other line, a shorter run or a character more at   *)
(* either end among them, is content: it leaves the section as it is,      *)
(* raises nothing and is appended to the open section if there is one.     *)
(***************************************************************************)
\* The step treats the line as a start marker.
ActsAsStart ==
    IF in_search \/ in_replace
    THEN outcome' = Raise(ERR_START, << >>)
    ELSE /\ in_search' /\ ~in_replace' /\ outcome' = Running
         /\ current_search_content_lines' = << >>

\* The step treats the line as a separator.
ActsAsSeparator ==
    IF in_search
    THEN /\ ~in_search' /\ in_replace' /\ outcome' = Running
         /\ UNCHANGED current_search_content_lines
    ELSE outcome' = Raise(ERR_SEP, << >>)

\* The step treats the line as an end marker.
ActsAsEnd ==
    IF in_replace
    THEN \/ /\ ~in_search' /\ ~in_replace' /\ outcome' = Running
            /\ Len(replacements') = Len(replacements) + 1
         \/ /\ outcome'.status = "raised" /\ outcome'.error = ERR_NOMATCH
    ELSE outcome' = Raise(ERR_END, << >>)

\* The step treats the line l as content.
ActsAsContent(l) ==
    /\ UNCHANGED << in_search, in_replace, outcome, replacements >>
    /\ current_search_content_lines'
          = IF in_search THEN Append(current_search_content_lines, l)
            ELSE current_search_content_lines
    /\ current_replace_content_lines'
          = IF in_replace THEN Append(current_replace_content_lines, l)
            ELSE current_replace_content_lines

C25_MarkerRecognition ==
    [][\A l \in ParseLines :
          Reads(l) =>
              /\ StartShape(l) <=> ActsAsStart
              /\ SeparatorShape(l) <=> ActsAsSeparator
              /\ EndShape(l) <=> ActsAsEnd
              /\ ~MarkerShape(l) <=> ActsAsContent(l)]_vars

\* A block opened and closed by markers with runs of 8 was applied, with a
\* line one "-" short of a start marker and a separator after a space kept
\* as the lines of its replace section.
C25_Witness ==
    /\ Returned
    /\ Len(read_lines) = 5
    /\ read_lines[1] = <<"-", "-", "-", "-", "-", "-", "-", "-",
                         " ", "S", "E", "A", "R", "C", "H">>
    /\ read_lines[2] = <<"=", "=", "=", "=", "=", "=", "=", "=">>
    /\ read_lines[3] = <<"-", "-", "-", "-", "-", "-", " ", "S", "E", "A", "R", "C", "H">>
    /\ read_lines[4] = <<" ", "=", "=", "=", "=", "=", "=", "=">>
    /\ read_lines[5] = <<"+", "+", "+", "+", "+", "+", "+", "+",
                         " ", "R", "E", "P", "L", "A", "C", "E">>
    /\ outcome.text = read_lines[3] \o <<"\n">> \o read_lines[4] \o original_content
    /\ original_content # << >>

(***************************************************************************)
(* C26  Fuzzy tie-breaking.  When the exact search fails and the longest   *)
(* shared run reaches the threshold, the fuzzy matcher works from the      *)
(* longest run that starts earliest in the original, and of those from the *)
(* one that starts earliest in the search content, other longest runs of   *)
(* the same length or not: it returns the lines of that run's window with  *)
(* their endings when the window is in bounds, and fails when it is not.   *)
(***************************************************************************)
\* Offsets of the original lines [first, first + n) with their endings.
WindowWithEnds(first, n) ==
    Span(LineStart(original_content, first),
         IF first + n >= Len(OriginalLines) THEN Len(original_content)
         ELSE LineStart(original_content, first + n))

\* The longest run that starts earliest in ol, and of those earliest in sl.
EarliestRun(ol, sl) ==
    CHOOSE p \in LongestRuns(ol, sl) :
        /\ \A q \in LongestRuns(ol, sl) : p[1] <= q[1]
        /\ \A q \in LongestRuns(ol, sl) : q[1] = p[1] => p[2] <= q[2]

\* The exact search fails for block k and its longest run reaches the threshold.
FuzzyDecides(k) ==
    /\ ExactAlone(SearchContent(k)) = None
    /\ LongestRun(OriginalLinesWithEnds, SearchLinesWithEnds(k)) > 0
    /\ 10 * LongestRun(OriginalLinesWithEnds, SearchLinesWithEnds(k))
          >= 6 * Len(SearchLinesWithEnds(k))

InsideOriginal(r) ==
    0 <= r.start /\ r.start <= r.end /\ r.end <= Len(original_content)

\* Offsets at which a line of the original text starts.
LineStarts == { LineStart(original_content, i) : i \in 0..(Len(OriginalLines) - 1) }

C27_SpanBounds ==
    /\ \A i \in 1..Len(replacements) : InsideOriginal(SpanOf(replacements[i]))
    /\ \A k \in 1..Len(blocks) :
          LET S == SearchContent(k)
          IN  /\ ExactAlone(S) # None => InsideOriginal(ExactAlone(S))
              /\ FuzzyAlone(S) # None =>
                    InsideOriginal(FuzzyAlone(S)) /\ FuzzyAlone(S).start \in LineStarts
              /\ TrimmedAlone(S) # None =>
                    InsideOriginal(TrimmedAlone(S)) /\ TrimmedAlone(S).start \in LineStarts
              /\ AnchorAlone(S) # None =>
                    InsideOriginal(AnchorAlone(S)) /\ AnchorAlone(S).start \in LineStarts
              /\ (InLoop /\ Len(replacements) >= k /\ ExactAlone(S) = None) =>
                    replacements[k].start \in LineStarts

\* On a text without a final newline a block was resolved by the anchor
\* matcher alone to a span that starts after line 0 and ends with the text.
C27_Witness ==
    /\ Returned
    /\ Len(blocks) = 1
    /\ ExactAlone(SearchContent(1)) = None
    /\ FuzzyAlone(SearchContent(1)) = None
    /\ TrimmedAlone(SearchContent(1)) = None
    /\ replacements[1].start > 0
    /\ replacements[1].start \in LineStarts
    /\ replacements[1].end = Len(original_content)
    /\ original_content[Len(original_content)] # NL

(***************************************************************************)
(* The repair loop of the code generation graph.                           *)
(***************************************************************************)
\* The generator node has just run: the step from agent to agent'.
GeneratorRan == agent.node = "generator" /\ agent'.node = "simulator"

\* The diff that is malformed whatever the code: a stray separator after a
\* complete block.
MalformedAgentDiff == DiffText(<< Block(<< <<"a">> >>, << >>) >>) \o <<NL>> \o SEPARATOR

\* C28: every run of generate_code_node adds exactly 1 to attempts; with
\* attempts > 0, when apply_diff raises on the previous code and the diff of
\* the language model the node returns the previous python_code unchanged,
\* and when apply_diff returns, python_code is the text it returned.
C28_RepairOnDiffFailure ==
    [][GeneratorRan =>
        /\ agent'.attempts = agent.attempts + 1
        /\ agent.attempts > 0 =>
              LET applied == apply_diff(agent.python_code.some,
                                        agent'.llm_diff_output.some)
              IN  IF applied.status = "raised"
                  THEN agent'.python_code = agent.python_code
                  ELSE agent'.python_code = Some(applied.text)]_vars

\* A second attempt whose diff could not be applied has left the code "a"
\* of the first attempt in place and has been counted.
C28_Witness ==
    /\ agent # << >>
    /\ agent.node = "simulator"
    /\ agent.attempts = 2
    /\ agent.llm_diff_output = Some(MalformedAgentDiff)
    /\ agent.python_code = Some(<<"a">>)

\* How many times a node has run.
Runs(name) == Cardinality({ i \in DOMAIN agent.visits : agent.visits[i] = name })

\* The nodes of the graph; at one of them, the next step of the run is
\* enabled: the node runs, or invoke raises for want of steps.
GraphNodes == { "generator", "simulator", "feedback_preparer" }

\* The simulator was the last node to run.
AfterSimulator ==
    agent.visits # << >> /\ agent.visits[Len(agent.visits)] = "simulator"

\* The generator has run at most max(1, max_attempts) times, the workflow is
\* at END right after a simulation that reported success, and
\* feedback_preparer is reached only after a failed simulation with
\* attempts < max_attempts.
RepairLoopBounds ==
    /\ Runs("generator") <= Max(1, agent.max_attempts)
    /\ AfterSimulator /\ agent.simulation_result.success => agent.node = "END"
    /\ AfterSimulator /\ agent.node = "feedback_preparer"
          => ~agent.simulation_result.success /\ agent.attempts < agent.max_attempts
    /\ Runs("feedback_preparer") <= Runs("simulator")
    /\ Runs("feedback_preparer") > 0 => agent.attempts <= agent.max_attempts

\* C29: whatever the simulations and the diff applications give, the workflow
\* reaches END: its run, which is finite, is over nowhere but at END; the
\* generator runs at most max(1, max_attempts) times, the workflow ends right
\* after the first simulation that reports success, and feedback_preparer
\* runs only after a failed simulation with attempts < max_attempts.
C29_RepairLoopTermination ==
    /\ agent.node \in GraphNodes \/ agent.node = "END"
    /\ agent.steps <= 3 * Max(1, agent.max_attempts)
    /\ RepairLoopBounds

(***************************************************************************)
(* The diff retry of modify_code_tool.                                     *)
(***************************************************************************)
\* The calls of apply_diff made so far by the invocation.
ApplyCalls == tool.applies

\* What apply_diff gives for a call's arguments, worked out anew.
Recomputed(call) == apply_diff(call.original_content, call.diff_content)

====
